---- MODULE Spec2Model ----
(***************************************************************************)
(* Avellaneda-Stoikov market maker (trade_learn): the lifecycle state      *)
(* machine of BaseStrategy, the update loop of AvellanedaStoikovStrategy,  *)
(* the PositionManager ledger and an exchange that answers each call when  *)
(* the awaiting continuation resumes.                                      *)
(*                                                                         *)
(* Prices and quantities are integers (multiples of the tick and of the    *)
(* lot); the average entry price and the PnL figures are exact rationals   *)
(* [n, d], so a division is a division and not a rounding.                 *)
(***************************************************************************)
EXTENDS Integers, Sequences, FiniteSets, TLC

VARIABLES
    state,          \* BaseStrategy._state
    strategyConfig, \* BaseStrategy._config, the StrategyConfig handed to initialize()
    asConfig,       \* AvellanedaStoikovStrategy.asConfig
    updateTimer,    \* the handle field: "null", "live" (names a pending timer), "stale" (names a fired one)
    timers,         \* number of pending setTimeout callbacks of this strategy
    bidOrderId,     \* 0 is null
    askOrderId,     \* 0 is null
    currentKappa,   \* in thousandths
    stats,          \* _stats.totalOrdersPlaced / totalOrdersFilled
    pm,             \* the PositionManager fields
    cycles,         \* the runUpdate() invocations suspended at an exchange await
    calls,          \* the lifecycle calls suspended at an exchange await, per await point
    orders,         \* the exchange's order table, indexed by order id
    trace,          \* what the last step did, in program order
    ended,          \* summary of the update cycle that ended in the last step
    cancelDone,     \* the last pause()/stop() that completed cancelled all orders successfully
    ring,           \* a RingBuffer: buffer, head, tail, count, capacity
    fresh,          \* a RingBuffer constructed when ring was last cleared, given the same calls since
    pushed,         \* the items pushed to ring since it was constructed or cleared
    popped,         \* whether pop() was called on ring since it was constructed or cleared
    returned,       \* what the last call returned on ring and on fresh
    quote,          \* the ASQuote handed to applyPriceConstraints
    constraints,    \* calculateAS's minSpread, maxSpreadMultiplier and tickSize arguments
    constrained,    \* the quote applyPriceConstraints returned
    result,         \* the bidPrice and askPrice calculateAS returned
    submitted,      \* the prices placeOrder handed to the exchange for them
    estimator,      \* a ParameterEstimator: the VolatilityCalculator and the KappaCalculator
    params,         \* currentSigma and currentKappa, with asConfig.sigma and asConfig.kappa
    answer          \* what the last call on the estimator returned

ringVars == <<ring, fresh, pushed, popped, returned>>
quoteVars == <<quote, constraints, constrained, result, submitted>>
estimatorVars == <<estimator, params, answer>>
strategyVars == <<state, strategyConfig, asConfig, updateTimer, timers, bidOrderId, askOrderId, currentKappa,
                  stats, pm, cycles, calls, orders, trace, ended, cancelDone>>

vars == <<state, strategyConfig, asConfig, updateTimer, timers, bidOrderId, askOrderId, currentKappa,
          stats, pm, cycles, calls, orders, trace, ended, cancelDone,
          ring, fresh, pushed, popped, returned, quote, constraints, constrained,
          result, submitted, estimator, params, answer>>

-----------------------------------------------------------------------------
(* Bounds of the model *)

\* update-timer chains (pending timers + cycles in flight + start/resume about to
\* schedule) and lifecycle calls suspended at the same time, in dry-run mode
MaxChains == 2
MaxCalls == 2
\* the same two bounds when the strategy trades (dryRun = false)
MaxLiveChains == 1
MaxLiveCalls == 1
\* timer chains when the strategy trades and the caller only pauses and resumes
MaxResumeChains == 2
\* orders the exchange accepts before it rejects every placement
MaxOrders == 1
\* fills applied to a stand-alone ledger
MaxFills == 3
\* largest fill quantity / price applied to a stand-alone ledger
MaxQty == 2
MaxPrice == 2
\* the distance of a quote from the mid price, in ticks
QuoteHalfSpread == 1

-----------------------------------------------------------------------------
(* Exact rationals *)

Abs(x) == IF x < 0 THEN -x ELSE x
Min(a, b) == IF a <= b THEN a ELSE b

RECURSIVE GCD(_, _)
GCD(a, b) == IF b = 0 THEN a ELSE GCD(b, a % b)

Rat(n, d) ==
    LET g == GCD(Abs(n), Abs(d))
        s == IF d < 0 THEN -1 ELSE 1
    IN  IF n = 0 THEN [n |-> 0, d |-> 1] ELSE [n |-> s * (n \div g), d |-> s * (d \div g)]
RInt(i)    == [n |-> i, d |-> 1]
RAdd(x, y) == Rat(x.n * y.d + y.n * x.d, x.d * y.d)
RSub(x, y) == Rat(x.n * y.d - y.n * x.d, x.d * y.d)
RMul(x, y) == Rat(x.n * y.n, x.d * y.d)
RDiv(x, y) == Rat(x.n * y.d, x.d * y.n)
RLess(x, y) == x.n * y.d < y.n * x.d
RZero == RInt(0)

-----------------------------------------------------------------------------
(* PositionManager: the ledger *)

FlatLedger ==
    [currentInventory  |-> 0,
     averageEntryPrice |-> RZero,
     unrealizedPnl     |-> RZero,
     realizedPnl       |-> RZero,
     trades            |-> <<>>]

\* handleBuy(quantity, price) with the realized-PnL term dropped from the flip
handleBuyLeaky(p, quantity, price) ==
    IF p.currentInventory >= 0
    THEN LET newInventory == p.currentInventory + quantity
         IN  [p EXCEPT !.averageEntryPrice =
                          RDiv(RAdd(RMul(RInt(p.currentInventory), p.averageEntryPrice),
                                    RInt(quantity * price)),
                               RInt(newInventory)),
                       !.currentInventory = newInventory]
    ELSE LET newInventory == p.currentInventory + quantity
         IN  [p EXCEPT !.currentInventory = newInventory,
                       !.averageEntryPrice =
                          IF newInventory > 0 THEN RInt(price)
                          ELSE IF newInventory = 0 THEN RZero ELSE @]

\* handleBuy(quantity, price) without the reset of the average when a short is
\* covered exactly
handleBuyNoReset(p, quantity, price) ==
    IF p.currentInventory >= 0
    THEN LET newInventory == p.currentInventory + quantity
         IN  [p EXCEPT !.averageEntryPrice =
                          RDiv(RAdd(RMul(RInt(p.currentInventory), p.averageEntryPrice),
                                    RInt(quantity * price)),
                               RInt(newInventory)),
                       !.currentInventory = newInventory]
    ELSE LET shortReduction == Min(quantity, Abs(p.currentInventory))
             pnl == RMul(RInt(shortReduction), RSub(p.averageEntryPrice, RInt(price)))
             newInventory == p.currentInventory + quantity
         IN  [p EXCEPT !.realizedPnl = RAdd(@, pnl),
                       !.currentInventory = newInventory,
                       !.averageEntryPrice = IF newInventory > 0 THEN RInt(price) ELSE @]

handleBuy(p, quantity, price) ==
    IF p.currentInventory >= 0
    THEN \* adding to a long position
         LET newInventory == p.currentInventory + quantity
         IN  [p EXCEPT !.averageEntryPrice =
                          RDiv(RAdd(RMul(RInt(p.currentInventory), p.averageEntryPrice),
                                    RInt(quantity * price)),
                               RInt(newInventory)),
                       !.currentInventory = newInventory]
    ELSE \* reducing a short position
         LET shortReduction == Min(quantity, Abs(p.currentInventory))
             pnl == RMul(RInt(shortReduction), RSub(p.averageEntryPrice, RInt(price)))
             newInventory == p.currentInventory + quantity
         IN  [p EXCEPT !.realizedPnl = RAdd(@, pnl),
                       !.currentInventory = newInventory,
                       !.averageEntryPrice =
                          IF newInventory > 0 THEN RInt(price)
                          ELSE IF newInventory = 0 THEN RZero ELSE @]

\* handleSell(quantity, price) booking PnL against the average when it adds to a short
handleSellRealizesOnAdd(p, quantity, price) ==
    IF p.currentInventory <= 0
    THEN LET newInventory == p.currentInventory - quantity
             currentNotional == RMul(RInt(Abs(p.currentInventory)), p.averageEntryPrice)
             newNotional == RInt(quantity * price)
         IN  [p EXCEPT !.realizedPnl =
                          RAdd(@, RMul(RInt(quantity), RSub(RInt(price), p.averageEntryPrice))),
                       !.averageEntryPrice =
                          RDiv(RAdd(currentNotional, newNotional), RInt(Abs(newInventory))),
                       !.currentInventory = newInventory]
    ELSE LET longReduction == Min(quantity, p.currentInventory)
             pnl == RMul(RInt(longReduction), RSub(RInt(price), p.averageEntryPrice))
             newInventory == p.currentInventory - quantity
         IN  [p EXCEPT !.realizedPnl = RAdd(@, pnl),
                       !.currentInventory = newInventory,
                       !.averageEntryPrice =
                          IF newInventory < 0 THEN RInt(price)
                          ELSE IF newInventory = 0 THEN RZero ELSE @]

\* handleSell(quantity, price) keeping the long's average when the position flips short
handleSellKeepsAverage(p, quantity, price) ==
    IF p.currentInventory <= 0
    THEN LET newInventory == p.currentInventory - quantity
             currentNotional == RMul(RInt(Abs(p.currentInventory)), p.averageEntryPrice)
             newNotional == RInt(quantity * price)
         IN  [p EXCEPT !.averageEntryPrice =
                          RDiv(RAdd(currentNotional, newNotional), RInt(Abs(newInventory))),
                       !.currentInventory = newInventory]
    ELSE LET longReduction == Min(quantity, p.currentInventory)
             pnl == RMul(RInt(longReduction), RSub(RInt(price), p.averageEntryPrice))
             newInventory == p.currentInventory - quantity
         IN  [p EXCEPT !.realizedPnl = RAdd(@, pnl),
                       !.currentInventory = newInventory,
                       !.averageEntryPrice = IF newInventory = 0 THEN RZero ELSE @]

handleSell(p, quantity, price) ==
    IF p.currentInventory <= 0
    THEN \* adding to a short position
         LET newInventory == p.currentInventory - quantity
             currentNotional == RMul(RInt(Abs(p.currentInventory)), p.averageEntryPrice)
             newNotional == RInt(quantity * price)
         IN  [p EXCEPT !.averageEntryPrice =
                          RDiv(RAdd(currentNotional, newNotional), RInt(Abs(newInventory))),
                       !.currentInventory = newInventory]
    ELSE \* reducing a long position
         LET longReduction == Min(quantity, p.currentInventory)
             pnl == RMul(RInt(longReduction), RSub(RInt(price), p.averageEntryPrice))
             newInventory == p.currentInventory - quantity
         IN  [p EXCEPT !.realizedPnl = RAdd(@, pnl),
                       !.currentInventory = newInventory,
                       !.averageEntryPrice =
                          IF newInventory < 0 THEN RInt(price)
                          ELSE IF newInventory = 0 THEN RZero ELSE @]

\* order: [side, executedQuantity, avgPrice, price]; avgPrice 0 stands for undefined
updateFromOrder(p, order) ==
    IF order.executedQuantity <= 0 THEN p
    ELSE LET filledQty == order.executedQuantity
             filledPrice == IF order.avgPrice # 0 THEN order.avgPrice ELSE order.price
             q == [p EXCEPT !.trades = Append(@, [side |-> order.side,
                                                  quantity |-> filledQty,
                                                  price |-> filledPrice])]
         IN  IF order.side = "BUY" THEN handleBuy(q, filledQty, filledPrice)
                                   ELSE handleSell(q, filledQty, filledPrice)

updateUnrealizedPnl(p, midPrice) ==
    IF p.currentInventory = 0
    THEN [p EXCEPT !.unrealizedPnl = RZero]
    ELSE [p EXCEPT !.unrealizedPnl =
                      RMul(RInt(p.currentInventory), RSub(RInt(midPrice), p.averageEntryPrice))]

totalPnl(p) == RAdd(p.realizedPnl, p.unrealizedPnl)

canBuy(p, cfg, quantity)  == p.currentInventory + quantity <= cfg.maxPosition
canSell(p, cfg, quantity) == p.currentInventory - quantity >= cfg.minPosition


\* PositionManager.initialize() whose catch block leaves the ledger as it was
initializeKeepsOnFailure(p, got) ==
    IF got.kind = "fail"
    THEN p
    ELSE IF got.kind = "none"
    THEN [p EXCEPT !.currentInventory = 0, !.averageEntryPrice = RZero,
                   !.realizedPnl = RZero, !.unrealizedPnl = RZero]
    ELSE [p EXCEPT !.currentInventory = got.quantity,
                   !.averageEntryPrice = RInt(got.entryPrice),
                   !.realizedPnl = RZero, !.unrealizedPnl = RZero]

\* PositionManager.initialize(): got.kind is "fail" (getPosition rejected), "none"
\* (no position) or "pos" (the exchange's position)
initialize(p, got) ==
    IF got.kind = "fail"
    THEN [p EXCEPT !.currentInventory = 0, !.averageEntryPrice = RZero]
    ELSE IF got.kind = "none"
    THEN [p EXCEPT !.currentInventory = 0, !.averageEntryPrice = RZero,
                   !.realizedPnl = RZero, !.unrealizedPnl = RZero]
    ELSE [p EXCEPT !.currentInventory = got.quantity,
                   !.averageEntryPrice = RInt(got.entryPrice),
                   !.realizedPnl = RZero, !.unrealizedPnl = RZero]

-----------------------------------------------------------------------------
(* Configuration *)

\* DEFAULT_AS_CONFIG.stopLossThreshold; onInitialize passes no threshold, so the default is used
StopLossThreshold == -1000

\* the StrategyConfig values handed to initialize(). Prices are in units of 0.01 and
\* quantities in units of 0.0001, the default tick and lot.
BaseConfigs ==
    { [orderSize |-> os, maxPosition |-> 1, minPosition |-> -1, tickSize |-> 1,
       lotSize |-> 1, dryRun |-> dr] : os \in {1, -1}, dr \in BOOLEAN }
DryRunConfigs == {config \in BaseConfigs : config.dryRun}

NoConfig == [defined |-> FALSE]

\* gamma (in tenths), maxSpreadMultiplier and minSpread (in hundredths) from
\* DEFAULT_AS_CONFIG; kappa and sigma are not passed by onInitialize and stay undefined
DefaultOrderSize == 10
DefaultMaxPosition == 1000
DefaultMinPosition == -1000
DefaultTickSize == 1
DefaultLotSize == 1

\* `x || d` on numbers: 0 is replaced by the default
OrDefault(x, d) == IF x # 0 THEN x ELSE d

createASConfig(config) ==
    [defined |-> TRUE,
     orderSize |-> OrDefault(config.orderSize, DefaultOrderSize),
     maxPosition |-> OrDefault(config.maxPosition, DefaultMaxPosition),
     minPosition |-> OrDefault(config.minPosition, DefaultMinPosition),
     tickSize |-> OrDefault(config.tickSize, DefaultTickSize),
     lotSize |-> OrDefault(config.lotSize, DefaultLotSize),
     dryRun |-> config.dryRun,
     gamma |-> 5, maxSpreadMultiplier |-> 3, minSpread |-> 1,
     stopLossThreshold |-> StopLossThreshold,
     kappa |-> "undefined"]

\* the number of validation errors is not modelled, only whether there is one
validateASConfig(config) ==
    \/ config.gamma <= 0
    \/ config.orderSize <= 0
    \/ config.maxPosition <= 0
    \/ config.minPosition >= 0
    \/ config.tickSize <= 0
    \/ config.lotSize <= 0
    \/ config.maxSpreadMultiplier < 1
    \/ config.minSpread < 0

-----------------------------------------------------------------------------
(* What a step does, in program order *)

Item(k, a, b) == [k |-> k, a |-> a, b |-> b]
Invoke(op)    == <<Item("invoke", op, "")>>
Throw(op)     == <<Item("throw", op, "")>>
Return(op)    == <<Item("return", op, "")>>
Hook(name)    == <<Item("hook", name, "")>>
Issue(op)     == <<Item("call", op, "")>>
Resp(op, res) == <<Item("resp", op, res)>>
TimerOp(what) == <<Item("timer", what, "")>>

\* emitEvent with no handler invoked
emitEventDropped(type, data) == <<>>

\* BaseStrategy.emitEvent: every registered handler of the type receives the event
emitEvent(type, data) == <<Item("emit", type, data)>>

\* `this._state = s; this.emitEvent('STATE_CHANGE', { state: this._state })`
setState(s) == <<Item("set", s, "")>> \o emitEvent("STATE_CHANGE", s)

NoEnded == [some |-> FALSE]

-----------------------------------------------------------------------------
(* Timers: updateTimer holds the handle of the last setTimeout *)

\* scheduleUpdate(): the previous handle is overwritten, its timer stays pending
scheduleUpdate(t) == [h |-> "live", n |-> t.n + 1]

\* `if (this.updateTimer) { clearTimeout(this.updateTimer); this.updateTimer = null; }`
clearUpdateTimer(t) ==
    IF t.h = "null" THEN t
    ELSE [h |-> "null", n |-> IF t.h = "live" THEN t.n - 1 ELSE t.n]

Timer == [h |-> updateTimer, n |-> timers]

-----------------------------------------------------------------------------
(* Strategy: construction *)

IdleCycle == [pc |-> "idle"]
CycleIds == 1..MaxChains
ActiveCycles == {i \in CycleIds : cycles[i].pc # "idle"}

CallLabels == {"init_pos", "start_klines", "start_book", "pause_cancel", "resume_pos", "stop_cancel"}

-----------------------------------------------------------------------------
(* RingBuffer<T>: items are the numbers 1..MaxItem; 0 stands for undefined, the
   content of an empty slot and the answer of a read that finds nothing *)

MaxCapacity == 3
MaxItem == 2
MaxPushes == 5

undefined == 0
Items == 1..MaxItem

\* no buffer constructed
NoRing == [capacity |-> 0]

\* constructor(capacity), capacity > 0
RingBuffer(capacity) ==
    [buffer |-> [i \in 0..(capacity - 1) |-> undefined],
     head |-> 0, tail |-> 0, count |-> 0, capacity |-> capacity]

\* push(item) that leaves the tail where it is when the buffer is full
pushKeepsTail(r, item) ==
    [r EXCEPT !.buffer[r.head] = item,
              !.head = (r.head + 1) % r.capacity,
              !.count = IF r.count < r.capacity THEN r.count + 1 ELSE r.count]

\* push(item): overwrites the oldest item when full
push(r, item) ==
    [r EXCEPT !.buffer[r.head] = item,
              !.head = (r.head + 1) % r.capacity,
              !.count = IF r.count < r.capacity THEN r.count + 1 ELSE r.count,
              !.tail = IF r.count < r.capacity THEN r.tail ELSE (r.tail + 1) % r.capacity]

\* pop() that leaves count as it is
popKeepsCount(r) ==
    IF r.count = 0
    THEN [ring |-> r, item |-> undefined]
    ELSE [ring |-> [r EXCEPT !.buffer[r.tail] = undefined,
                             !.tail = (r.tail + 1) % r.capacity],
          item |-> r.buffer[r.tail]]

\* pop(): the buffer afterwards and the item returned
pop(r) ==
    IF r.count = 0
    THEN [ring |-> r, item |-> undefined]
    ELSE [ring |-> [r EXCEPT !.buffer[r.tail] = undefined,
                             !.tail = (r.tail + 1) % r.capacity,
                             !.count = r.count - 1],
          item |-> r.buffer[r.tail]]

peek(r) == IF r.count = 0 THEN undefined ELSE r.buffer[r.tail]

get(r, index) ==
    IF index < 0 \/ index >= r.count THEN undefined
    ELSE r.buffer[(r.tail + index) % r.capacity]

\* the loop of toArray() from position i on: a slot holding undefined is skipped
RECURSIVE toArrayFrom(_, _)
toArrayFrom(r, i) ==
    IF i >= r.count THEN <<>>
    ELSE LET item == r.buffer[(r.tail + i) % r.capacity]
         IN  (IF item # undefined THEN <<item>> ELSE <<>>) \o toArrayFrom(r, i + 1)

toArray(r) == toArrayFrom(r, 0)

size(r) == r.count

isFull(r) == r.count = r.capacity

\* clear() that leaves head where it is
clearKeepsHead(r) ==
    [r EXCEPT !.buffer = [i \in 0..(r.capacity - 1) |-> undefined],
              !.tail = 0, !.count = 0]

clear(r) ==
    [r EXCEPT !.buffer = [i \in 0..(r.capacity - 1) |-> undefined],
              !.head = 0, !.tail = 0, !.count = 0]

-----------------------------------------------------------------------------
(* ParameterEstimator: VolatilityCalculator and KappaCalculator. A buffered number
   x is stored as x + NumberBias, so that the number 0 is not the empty slot. Prices
   are powers of two and a log return is counted in units of ln 2; a volatility,
   which is a square root, is represented by its square, in units of (ln 2)^2. *)

NumberBias == 3

Stored(x) == x + NumberBias
Number(item) == item - NumberBias

\* the numbers a buffer holds, oldest first
Numbers(r) == [k \in 1..Len(toArray(r)) |-> Number(toArray(r)[k])]

\* RingBuffer.peekBack(): the newest item
peekBack(r) ==
    IF r.count = 0 THEN undefined ELSE r.buffer[(r.head - 1 + r.capacity) % r.capacity]

RECURSIVE Sum(_)
Sum(seq) == IF seq = <<>> THEN 0 ELSE seq[1] + Sum(Tail(seq))

RECURSIVE SumSquares(_)
SumSquares(seq) == IF seq = <<>> THEN 0 ELSE seq[1] * seq[1] + SumSquares(Tail(seq))

\* Math.log(price / prevPrice) in units of ln 2, for powers of two
RECURSIVE log2(_)
log2(x) == IF x <= 1 THEN 0 ELSE 1 + log2(x \div 2)
logReturn(price, prevPrice) == log2(price) - log2(prevPrice)

null == [null |-> TRUE]
Value(x) == [null |-> FALSE, value |-> x]

NoEstimator == [defined |-> FALSE]
NoParams == [defined |-> FALSE]
NoAnswer == [op |-> ""]

\* a VolatilityCalculator whose returns buffer is as large as its price buffer
VolatilityCalculatorWide(window, useEwma) ==
    [priceBuffer |-> RingBuffer(window), returnsBuffer |-> RingBuffer(window),
     useEwma |-> useEwma, ewmaDecay |-> Rat(47, 50), lastEwma |-> RZero]

\* new VolatilityCalculator(window, useEwma, ewmaDecay = 0.94), window >= 2
VolatilityCalculator(window, useEwma) ==
    [priceBuffer |-> RingBuffer(window), returnsBuffer |-> RingBuffer(window - 1),
     useEwma |-> useEwma, ewmaDecay |-> Rat(47, 50), lastEwma |-> RZero]

\* addPrice(price)
addPrice(v, price) ==
    LET prevPrice == peekBack(v.priceBuffer)
        pushed1 == [v EXCEPT !.priceBuffer = push(v.priceBuffer, price)]
    IN  IF prevPrice # undefined /\ prevPrice # 0
        THEN [pushed1 EXCEPT !.returnsBuffer =
                 push(v.returnsBuffer, Stored(logReturn(price, prevPrice)))]
        ELSE pushed1

\* calculateStandardDeviation(returns), squared: the sample variance
calculateStandardDeviation(returns) ==
    LET n == Len(returns)
        mean == Rat(Sum(returns), n)
    IN  RDiv(RSub(RInt(SumSquares(returns)), RMul(RInt(n), RMul(mean, mean))), RInt(n - 1))

\* calculateEwmaVolatility(returns): the calculator afterwards and the value
\* returned, squared
calculateEwmaVolatility(v, returns) ==
    LET seeded == IF v.lastEwma = RZero THEN calculateStandardDeviation(returns)
                  ELSE v.lastEwma
        latestReturn == returns[Len(returns)]
        squaredReturn == RInt(latestReturn * latestReturn)
        updated == RAdd(RMul(v.ewmaDecay, seeded),
                        RMul(RSub(RInt(1), v.ewmaDecay), squaredReturn))
    IN  [calculator |-> [v EXCEPT !.lastEwma = updated], value |-> Value(updated)]

\* VolatilityCalculator.calculate(): the calculator afterwards and the value
\* returned, squared
calculate(v) ==
    LET returns == Numbers(v.returnsBuffer)
    IN  IF Len(returns) < 2 THEN [calculator |-> v, value |-> null]
        ELSE IF v.useEwma THEN calculateEwmaVolatility(v, returns)
        ELSE [calculator |-> v, value |-> Value(calculateStandardDeviation(returns))]

\* new KappaCalculator(window); the mid price buffer is written and never read
KappaCalculator(window) == [spreadBuffer |-> RingBuffer(window)]

\* addSpread(spread)
addSpread(kc, spread) == [kc EXCEPT !.spreadBuffer = push(kc.spreadBuffer, Stored(spread))]

RMin(x, y) == IF RLess(x, y) THEN x ELSE y
RMax(x, y) == IF RLess(x, y) THEN y ELSE x

\* `Math.max(0.001, Math.min(0.5, kappa))`
clamp(kappa) == RMax(Rat(1, 1000), RMin(Rat(1, 2), kappa))

\* KappaCalculator.calculate with the clamp left out
calculateKappaUnclamped(kc, spreadMultiplier) ==
    LET spreads == Numbers(kc.spreadBuffer)
        avgSpread == Rat(Sum(spreads), Len(spreads))
    IN  IF Len(spreads) < 5 THEN null
        ELSE IF ~RLess(RZero, avgSpread) THEN null
        ELSE Value(RDiv(RInt(1), RMul(avgSpread, spreadMultiplier)))

\* KappaCalculator.calculate(spreadMultiplier)
calculateKappa(kc, spreadMultiplier) ==
    LET spreads == Numbers(kc.spreadBuffer)
        avgSpread == Rat(Sum(spreads), Len(spreads))
    IN  IF Len(spreads) < 5 THEN null
        ELSE IF ~RLess(RZero, avgSpread) THEN null
        ELSE Value(clamp(RDiv(RInt(1), RMul(avgSpread, spreadMultiplier))))

\* KappaCalculator.calculateFromVolatility(sigma)
calculateFromVolatility(sigma) ==
    IF ~RLess(RZero, sigma) THEN Rat(1, 100) ELSE clamp(RDiv(sigma, RInt(10)))

\* new ParameterEstimator(volatilityWindow, kappaWindow, useEwma)
ParameterEstimator(volatilityWindow, kappaWindow, useEwma) ==
    [defined |-> TRUE,
     volatility |-> VolatilityCalculator(volatilityWindow, useEwma),
     kappa |-> KappaCalculator(kappaWindow)]

\* getEstimates(kappaSpreadMultiplier), given what volatility.calculate() returned
getEstimates(e, sigma, kappaSpreadMultiplier) ==
    IF sigma = null THEN null
    ELSE LET k == calculateKappa(e.kappa, kappaSpreadMultiplier)
         IN  Value([sigma |-> sigma.value,
                    kappa |-> IF k = null THEN calculateFromVolatility(sigma.value)
                              ELSE k.value])

\* updateParameters() that keeps the estimate when a fixed value is configured
updateParametersUnfixed(p, estimates) ==
    IF estimates # null
    THEN [p EXCEPT !.currentSigma = estimates.value.sigma,
                   !.currentKappa = estimates.value.kappa]
    ELSE p

\* updateParameters(), with asConfig.sigma and asConfig.kappa null when undefined
updateParametersOf(p, estimates) ==
    LET est == IF estimates # null
               THEN [p EXCEPT !.currentSigma = estimates.value.sigma,
                              !.currentKappa = estimates.value.kappa]
               ELSE p
        sig == IF p.sigma # null THEN [est EXCEPT !.currentSigma = p.sigma.value] ELSE est
    IN  IF p.kappa # null THEN [sig EXCEPT !.currentKappa = p.kappa.value] ELSE sig

-----------------------------------------------------------------------------
(* The quote constraints *)

NoQuote == [midPrice |-> RZero]

StrategyInit ==
    /\ state = "INITIALIZING"
    /\ strategyConfig = NoConfig
    /\ asConfig = NoConfig
    /\ updateTimer = "null"
    /\ timers = 0
    /\ bidOrderId = 0
    /\ askOrderId = 0
    /\ currentKappa = 10
    /\ stats = [totalOrdersPlaced |-> 0, totalOrdersFilled |-> 0]
    /\ pm = FlatLedger
    /\ cycles = [i \in CycleIds |-> IdleCycle]
    /\ calls = [l \in CallLabels |-> 0]
    /\ orders = <<>>
    /\ trace = <<>>
    /\ ended = NoEnded
    /\ cancelDone = FALSE

NoRings ==
    /\ ring = NoRing /\ fresh = NoRing /\ pushed = <<>> /\ popped = FALSE
    /\ returned = <<undefined, undefined>>

NoQuotes ==
    /\ quote = NoQuote /\ constraints = NoQuote /\ constrained = NoQuote
    /\ result = NoQuote /\ submitted = NoQuote

NoEstimates ==
    /\ estimator = NoEstimator /\ params = NoParams /\ answer = NoAnswer

Init == StrategyInit /\ NoRings /\ NoQuotes /\ NoEstimates

-----------------------------------------------------------------------------
(* The exchange *)

Outcomes == {"ok", "fail"}
Mids == {1000, 3000}
\* what getPosition answers
Positions == {[kind |-> "fail"], [kind |-> "none"],
              [kind |-> "pos", quantity |-> 1, entryPrice |-> 3000]}
\* what ParameterEstimator.getEstimates() yields for kappa (thousandths, clamped to
\* 1..500); 0 stands for null (not enough data)
KappaEstimates == {0, 1}

IsOpen(o) == o.status \in {"NEW", "PARTIALLY_FILLED"}
OpenOrders == {id \in 1..Len(orders) : IsOpen(orders[id])}

\* cancelAllOrders at the exchange
CancelAll(os) == [id \in 1..Len(os) |->
                    IF IsOpen(os[id]) THEN [os[id] EXCEPT !.status = "CANCELLED"] ELSE os[id]]

\* an open order is executed in full at its limit price
ExchangeFill ==
    /\ \E id \in OpenOrders :
          orders' = [orders EXCEPT ![id] = [@ EXCEPT !.status = "FILLED",
                                                     !.executedQuantity = orders[id].quantity,
                                                     !.avgPrice = orders[id].price]]
    /\ trace' = <<>>
    /\ ended' = NoEnded
    /\ UNCHANGED <<ringVars, quoteVars, estimatorVars, state, strategyConfig, asConfig, updateTimer, timers, bidOrderId, askOrderId, currentKappa,
                   stats, pm, cycles, calls, cancelDone>>

-----------------------------------------------------------------------------
(* BaseStrategy: lifecycle *)

\* updateParameters(): asConfig.sigma and asConfig.kappa are undefined
updateParameters(kappa, est) == IF est = 0 THEN kappa ELSE est

InFlight == calls["start_klines"] + calls["start_book"] + calls["pause_cancel"]
            + calls["resume_pos"] + calls["stop_cancel"]
\* timers pending, cycles running, and start()/resume() calls that will schedule one
Chains == timers + Cardinality(ActiveCycles)
          + calls["start_klines"] + calls["start_book"] + calls["resume_pos"]

\* the caller awaits initialize() before it makes any other call (main.ts)
Ready == asConfig.defined /\ ~validateASConfig(asConfig) /\ calls["init_pos"] = 0
\* the caller of the lifecycle methods: how many calls it leaves suspended at the
\* same time, and how many timer chains it lets exist before it calls start/resume
Caller == IF asConfig.dryRun THEN [calls |-> MaxCalls, chains |-> MaxChains]
                             ELSE [calls |-> MaxLiveCalls, chains |-> MaxLiveChains]
MayCall(by) == Ready /\ InFlight < by.calls
MayChain(by) == MayCall(by) /\ Chains < by.chains

Await(l) == [calls EXCEPT ![l] = @ + 1]
Resume(l) == [calls EXCEPT ![l] = @ - 1]

InitializeWith(configs) ==
    /\ state = "INITIALIZING" /\ ~asConfig.defined
    /\ \E config \in configs :
          LET cfg == createASConfig(config)
              head == Invoke("initialize") \o setState("INITIALIZING") \o Hook("onInitialize")
          IN  /\ strategyConfig' = config
              /\ asConfig' = cfg
              /\ IF validateASConfig(cfg)
                 THEN /\ trace' = head \o Throw("initialize")
                      /\ calls' = calls
                 ELSE /\ trace' = head \o Issue("getPosition")
                      /\ calls' = Await("init_pos")
    /\ state' = "INITIALIZING"
    /\ ended' = NoEnded
    /\ UNCHANGED <<ringVars, quoteVars, estimatorVars, updateTimer, timers, bidOrderId, askOrderId, currentKappa, stats, pm,
                   cycles, orders, cancelDone>>

Initialize == InitializeWith(BaseConfigs)

InitializeDone ==
    /\ calls["init_pos"] > 0
    /\ calls' = Resume("init_pos")
    /\ \E got \in Positions :
          /\ pm' = initialize(pm, got)
          /\ trace' = Resp("getPosition", IF got.kind = "fail" THEN "fail" ELSE "ok")
                      \o setState("STOPPED") \o Return("initialize")
    /\ currentKappa' = 10
    /\ state' = "STOPPED"
    /\ ended' = NoEnded
    /\ UNCHANGED <<ringVars, quoteVars, estimatorVars, strategyConfig, asConfig, updateTimer, timers, bidOrderId, askOrderId, stats,
                   cycles, orders, cancelDone>>

\* pause() accepted when already paused
pauseRejectsLax(st) == st \notin {"RUNNING", "PAUSED"}

startRejects(st)  == st = "RUNNING"
pauseRejects(st)  == st # "RUNNING"
resumeRejects(st) == st # "PAUSED"
stopReturnsEarly(st) == st = "STOPPED" \/ st = "STOPPING"

Rejected(op) ==
    /\ trace' = Invoke(op) \o Throw(op)
    /\ ended' = NoEnded
    /\ UNCHANGED <<ringVars, quoteVars, estimatorVars, state, strategyConfig, asConfig, updateTimer, timers, bidOrderId, askOrderId, currentKappa,
                   stats, pm, cycles, calls, orders, cancelDone>>

StartBy(by) ==
    /\ Ready
    /\ IF startRejects(state) THEN Rejected("start")
       ELSE /\ MayChain(by)
            /\ state' = "RUNNING"
            /\ trace' = Invoke("start") \o setState("RUNNING") \o Hook("onStart") \o Issue("getKlines")
            /\ calls' = Await("start_klines")
            /\ cancelDone' = FALSE
            /\ ended' = NoEnded
            /\ UNCHANGED <<ringVars, quoteVars, estimatorVars, strategyConfig, asConfig, updateTimer, timers, bidOrderId, askOrderId, currentKappa,
                           stats, pm, cycles, orders>>

Start == StartBy(Caller)

\* collectInitialData: getKlines answered (a failure is logged), getOrderBook requested
StartKlines ==
    /\ calls["start_klines"] > 0
    /\ calls' = [calls EXCEPT !["start_klines"] = @ - 1, !["start_book"] = @ + 1]
    /\ \E res \in Outcomes : trace' = Resp("getKlines", res) \o Issue("getOrderBook")
    /\ ended' = NoEnded
    /\ UNCHANGED <<ringVars, quoteVars, estimatorVars, state, strategyConfig, asConfig, updateTimer, timers, bidOrderId, askOrderId, currentKappa,
                   stats, pm, cycles, orders, cancelDone>>

\* collectInitialData: getOrderBook answered, updateParameters(); then scheduleUpdate()
StartBook ==
    /\ calls["start_book"] > 0
    /\ calls' = Resume("start_book")
    /\ \E res \in Outcomes, est \in KappaEstimates :
          /\ currentKappa' = updateParameters(currentKappa, est)
          /\ trace' = Resp("getOrderBook", res) \o TimerOp("set") \o Return("start")
    /\ updateTimer' = scheduleUpdate(Timer).h
    /\ timers' = scheduleUpdate(Timer).n
    /\ ended' = NoEnded
    /\ UNCHANGED <<ringVars, quoteVars, estimatorVars, state, strategyConfig, asConfig, bidOrderId, askOrderId, stats, pm, cycles, orders, cancelDone>>

PauseBy(by) ==
    /\ Ready
    /\ IF pauseRejects(state) THEN Rejected("pause")
       ELSE /\ MayCall(by)
            /\ state' = "PAUSED"
            /\ trace' = Invoke("pause") \o setState("PAUSED") \o Hook("onPause")
                        \o TimerOp("clear") \o Issue("cancelAllOrders")
            /\ updateTimer' = clearUpdateTimer(Timer).h
            /\ timers' = clearUpdateTimer(Timer).n
            /\ calls' = Await("pause_cancel")
            /\ cancelDone' = FALSE
            /\ ended' = NoEnded
            /\ UNCHANGED <<ringVars, quoteVars, estimatorVars, strategyConfig, asConfig, bidOrderId, askOrderId, currentKappa, stats, pm, cycles, orders>>

Pause == PauseBy(Caller)

\* cancelAllOrders(): the handles are cleared only when the exchange call succeeded
PauseDone ==
    /\ calls["pause_cancel"] > 0
    /\ calls' = Resume("pause_cancel")
    /\ \E res \in Outcomes :
          /\ trace' = Resp("cancelAllOrders", res) \o Return("pause")
          /\ orders' = IF res = "ok" THEN CancelAll(orders) ELSE orders
          /\ bidOrderId' = IF res = "ok" THEN 0 ELSE bidOrderId
          /\ askOrderId' = IF res = "ok" THEN 0 ELSE askOrderId
          /\ cancelDone' = (res = "ok")
    /\ ended' = NoEnded
    /\ UNCHANGED <<ringVars, quoteVars, estimatorVars, state, strategyConfig, asConfig, updateTimer, timers, currentKappa, stats, pm, cycles>>

ResumeCallBy(by) ==
    /\ Ready
    /\ IF resumeRejects(state) THEN Rejected("resume")
       ELSE /\ MayChain(by)
            /\ state' = "RUNNING"
            /\ trace' = Invoke("resume") \o setState("RUNNING") \o Hook("onResume")
                        \o Issue("getPosition")
            /\ calls' = Await("resume_pos")
            /\ cancelDone' = FALSE
            /\ ended' = NoEnded
            /\ UNCHANGED <<ringVars, quoteVars, estimatorVars, strategyConfig, asConfig, updateTimer, timers, bidOrderId, askOrderId, currentKappa,
                           stats, pm, cycles, orders>>

ResumeCall == ResumeCallBy(Caller)

\* onResume: positionManager.initialize() answered; then scheduleUpdate()
ResumeDone ==
    /\ calls["resume_pos"] > 0
    /\ calls' = Resume("resume_pos")
    /\ \E got \in Positions :
          /\ pm' = initialize(pm, got)
          /\ trace' = Resp("getPosition", IF got.kind = "fail" THEN "fail" ELSE "ok")
                      \o TimerOp("set") \o Return("resume")
    /\ updateTimer' = scheduleUpdate(Timer).h
    /\ timers' = scheduleUpdate(Timer).n
    /\ ended' = NoEnded
    /\ UNCHANGED <<ringVars, quoteVars, estimatorVars, state, strategyConfig, asConfig, bidOrderId, askOrderId, currentKappa, stats, cycles,
                   orders, cancelDone>>

StopBy(by) ==
    /\ Ready
    /\ IF stopReturnsEarly(state)
       THEN /\ trace' = Invoke("stop") \o Return("stop")
            /\ ended' = NoEnded
            /\ UNCHANGED <<ringVars, quoteVars, estimatorVars, state, strategyConfig, asConfig, updateTimer, timers, bidOrderId, askOrderId,
                           currentKappa, stats, pm, cycles, calls, orders, cancelDone>>
       ELSE /\ MayCall(by)
            /\ state' = "STOPPING"
            /\ trace' = Invoke("stop") \o setState("STOPPING") \o Hook("onStop")
                        \o TimerOp("clear") \o Issue("cancelAllOrders")
            /\ updateTimer' = clearUpdateTimer(Timer).h
            /\ timers' = clearUpdateTimer(Timer).n
            /\ calls' = Await("stop_cancel")
            /\ cancelDone' = FALSE
            /\ ended' = NoEnded
            /\ UNCHANGED <<ringVars, quoteVars, estimatorVars, strategyConfig, asConfig, bidOrderId, askOrderId, currentKappa, stats, pm, cycles, orders>>

Stop == StopBy(Caller)

\* cancelAllOrders() with the catch block rethrowing
cancelAllOrdersRethrows(res) == res = "fail"

\* cancelAllOrders(): `try { await exchange.cancelAllOrders(...) } catch (error)
\* { logger.error(...) }`: a failure of the exchange call does not leave the method
cancelAllOrdersThrows(res) == FALSE

\* onStop: cancelAllOrders() answered; then stop() sets Stopped and returns
StopDone ==
    /\ calls["stop_cancel"] > 0
    /\ calls' = Resume("stop_cancel")
    /\ \E res \in Outcomes :
          /\ orders' = IF res = "ok" THEN CancelAll(orders) ELSE orders
          /\ bidOrderId' = IF res = "ok" THEN 0 ELSE bidOrderId
          /\ askOrderId' = IF res = "ok" THEN 0 ELSE askOrderId
          /\ cancelDone' = (res = "ok")
          /\ IF cancelAllOrdersThrows(res)
             THEN /\ trace' = Resp("cancelAllOrders", res) \o Throw("stop")
                  /\ state' = state
             ELSE /\ trace' = Resp("cancelAllOrders", res) \o setState("STOPPED")
                              \o Return("stop")
                  /\ state' = "STOPPED"
    /\ ended' = NoEnded
    /\ UNCHANGED <<ringVars, quoteVars, estimatorVars, strategyConfig, asConfig, updateTimer, timers, currentKappa, stats, pm, cycles>>

-----------------------------------------------------------------------------
(* Quote *)

\* roundToTickSize on integers: Math.floor, Math.ceil, Math.round (half up)
roundToTickSize(price, tickSize, direction) ==
    IF direction = "down" THEN (price \div tickSize) * tickSize
    ELSE IF direction = "up" THEN (-((-price) \div tickSize)) * tickSize
    ELSE ((2 * price + tickSize) \div (2 * tickSize)) * tickSize


\* calculateAS: calculateHalfSpread throws unless kappa > 0 and gamma > 0. The value
\* of the half spread (a logarithm) and the inventory skew q*gamma*sigma^2 are not
\* computed: the constrained quote is taken QuoteHalfSpread away from the mid price,
\* then the bid is rounded down and the ask up.
calculateAS(midPrice, kappa, cfg) ==
    IF kappa <= 0 \/ cfg.gamma <= 0
    THEN [throws |-> TRUE]
    ELSE [throws |-> FALSE,
          bidPrice |-> roundToTickSize(midPrice - QuoteHalfSpread, cfg.tickSize, "down"),
          askPrice |-> roundToTickSize(midPrice + QuoteHalfSpread, cfg.tickSize, "up")]

-----------------------------------------------------------------------------
(* AvellanedaStoikovStrategy: the update loop *)

NewCycle == [pc |-> "book", side |-> "", oid |-> 0, fillEvt |-> FALSE, bid |-> 0, ask |-> 0,
             canBid |-> FALSE, canAsk |-> FALSE, placed |-> 0, ioFail |-> FALSE, sl |-> FALSE, errors |-> 0,
             flat |-> FALSE]

CountErrors(tr) == Cardinality({k \in DOMAIN tr : tr[k].k = "emit" /\ tr[k].a = "ERROR"})

\* runUpdate's catch with the emitEvent left out
runUpdateCatchSilent == <<>>

\* runUpdate: `catch (error) { logger.error(...); this.emitEvent('ERROR', { error }); }`
runUpdateCatch == emitEvent("ERROR", "")

\* runUpdate that schedules no further update
neverReschedules(st) == FALSE

\* runUpdate: `if (this._state === 'RUNNING') { this.scheduleUpdate(); }`
mayReschedule(st) == st = "RUNNING"

\* manageOrders with the dry-run test left out
dryRunIgnored(cfg) == FALSE

\* manageOrders: `if (this.asConfig.dryRun) { logger.debug(...); return; }`
dryRunReturns(cfg) == cfg.dryRun

\* placeOrder(side, price, quantity) up to its await
IssuePlace(c, side) ==
    [c  |-> [c EXCEPT !.pc = "place", !.side = side, !.placed = @ + 1],
     tr |-> Issue("placeOrder")]

\* update() returns: the UPDATE event
Done(c) == [c |-> [c EXCEPT !.pc = "done"], tr |-> emitEvent("UPDATE", "")]

\* manageOrders, ask side, up to its first await
EnterSell(c, askH) ==
    IF c.canAsk
    THEN IF askH # 0
         THEN [c |-> [c EXCEPT !.pc = "get", !.side = "SELL", !.oid = askH],
               tr |-> Issue("getOrder")]
         ELSE IssuePlace(c, "SELL")
    ELSE IF askH # 0
         THEN [c |-> [c EXCEPT !.pc = "limit_cancel", !.side = "SELL", !.oid = askH],
               tr |-> Issue("cancelOrder")]
         ELSE Done(c)

\* manageOrders with the bid side's position limit left out
EnterBuyIgnoringLimit(c, canBid, bidH, askH) ==
    IF bidH # 0
    THEN [c |-> [c EXCEPT !.pc = "get", !.side = "BUY", !.oid = bidH],
          tr |-> Issue("getOrder")]
    ELSE IssuePlace(c, "BUY")

\* manageOrders, bid side, up to its first await
EnterBuy(c, canBid, bidH, askH) ==
    IF canBid
    THEN IF bidH # 0
         THEN [c |-> [c EXCEPT !.pc = "get", !.side = "BUY", !.oid = bidH],
               tr |-> Issue("getOrder")]
         ELSE IssuePlace(c, "BUY")
    ELSE IF bidH # 0
         THEN [c |-> [c EXCEPT !.pc = "limit_cancel", !.side = "BUY", !.oid = bidH],
               tr |-> Issue("cancelOrder")]
         ELSE EnterSell(c, askH)

\* one side is finished: the other side, or the end of update()
SideDone(c, askH) ==
    LET d == [c EXCEPT !.oid = 0, !.fillEvt = FALSE]
    IN  IF c.side = "BUY" THEN EnterSell([d EXCEPT !.bid = 0], askH)
        ELSE Done([d EXCEPT !.ask = 0])

\* The cycle i continues as c (at an await point, or "done"/"threw"), having done tr;
\* st and t are the state and the timer it leaves. When update() has returned or
\* thrown, runUpdate emits ERROR for a throw and reschedules while Running.
Land(i, c, tr, st, t) ==
    LET fin  == c.pc \in {"done", "threw"}
        tr1  == IF c.pc = "threw" THEN tr \o runUpdateCatch ELSE tr
        again == fin /\ mayReschedule(st)
        t1   == IF again THEN scheduleUpdate(t) ELSE t
        errs == c.errors + CountErrors(tr1)
    IN  /\ cycles' = [cycles EXCEPT ![i] = IF fin THEN IdleCycle ELSE [c EXCEPT !.errors = errs]]
        /\ ended' = IF fin
                    THEN [some |-> TRUE, sl |-> c.sl, placed |-> c.placed, flat |-> c.flat,
                          threw |-> c.pc = "threw", errors |-> errs,
                          ioFail |-> c.ioFail, scheduled |-> again]
                    ELSE NoEnded
        /\ trace' = tr1 \o (IF again THEN TimerOp("set") ELSE <<>>)
        /\ updateTimer' = t1.h
        /\ timers' = t1.n
        /\ state' = st

\* runUpdate with the state test left out
runUpdateNeverReturns(st) == FALSE

\* runUpdate: `if (this._state !== 'RUNNING') { return; }`
runUpdateReturns(st) == st # "RUNNING"

\* a setTimeout callback runs: runUpdate() up to update()'s first await
TimerFire ==
    /\ timers > 0
    /\ \E viaHandle \in BOOLEAN :
          /\ IF viaHandle THEN updateTimer = "live"
                          ELSE timers > (IF updateTimer = "live" THEN 1 ELSE 0)
          /\ updateTimer' = IF viaHandle THEN "stale" ELSE updateTimer
    /\ timers' = timers - 1
    /\ IF runUpdateReturns(state)
       THEN /\ cycles' = cycles
            /\ trace' = <<Item("fire", "", "")>> \o Return("runUpdate")
       ELSE /\ \E i \in CycleIds :
                 /\ cycles[i].pc = "idle"
                 /\ \A j \in CycleIds : j < i => cycles[j].pc # "idle"
                 /\ cycles' = [cycles EXCEPT ![i] = NewCycle]
            /\ trace' = <<Item("fire", "", "")>> \o Issue("getOrderBook")
    /\ ended' = NoEnded
    /\ UNCHANGED <<ringVars, quoteVars, estimatorVars, state, strategyConfig, asConfig, bidOrderId, askOrderId, currentKappa, stats, pm, calls,
                   orders, cancelDone>>

\* update(): getOrderBook answered; estimator, PnL, stop-loss, quote, start of manageOrders
CycleBookIn(i, mids, estimates) ==
    /\ cycles[i].pc = "book"
    /\ \E res \in {"fail", "empty", "ok"}, mid \in mids, est \in estimates :
          LET c    == cycles[i]
              kap  == updateParameters(currentKappa, est)
              pm1  == updateUnrealizedPnl(pm, mid)
              hit  == RLess(totalPnl(pm1), RInt(asConfig.stopLossThreshold))
              q    == calculateAS(mid, kap, asConfig)
              resp == Resp("getOrderBook", IF res = "fail" THEN "fail" ELSE "ok")
          IN  IF res # "ok"
              THEN \* the call rejects, or bids[0] of an empty book is undefined
                   /\ Land(i, [c EXCEPT !.pc = "threw", !.ioFail = (res = "fail")], resp, state, Timer)
                   /\ UNCHANGED <<currentKappa, pm, cancelDone>>
              ELSE /\ currentKappa' = kap
                   /\ pm' = pm1
                   /\ IF hit
                      THEN IF stopReturnsEarly(state)
                           THEN /\ Land(i, [c EXCEPT !.pc = "done", !.sl = TRUE],
                                        resp \o Invoke("stop") \o Return("stop"), state, Timer)
                                /\ UNCHANGED cancelDone
                           ELSE /\ Land(i, [c EXCEPT !.pc = "sl_cancel", !.sl = TRUE],
                                        resp \o Invoke("stop") \o setState("STOPPING")
                                        \o Hook("onStop") \o TimerOp("clear")
                                        \o Issue("cancelAllOrders"),
                                        "STOPPING", clearUpdateTimer(Timer))
                                /\ cancelDone' = FALSE
                      ELSE /\ UNCHANGED cancelDone
                           /\ IF q.throws
                              THEN Land(i, [c EXCEPT !.pc = "threw"], resp, state, Timer)
                              ELSE IF dryRunReturns(asConfig)
                              THEN LET r == Done(c) IN Land(i, r.c, resp \o r.tr, state, Timer)
                              ELSE LET canBid == canBuy(pm1, asConfig, asConfig.orderSize)
                                       canAsk == canSell(pm1, asConfig, asConfig.orderSize)
                                       r == EnterBuy([c EXCEPT !.bid = q.bidPrice,
                                                               !.ask = q.askPrice,
                                                               !.canBid = canBid,
                                                               !.canAsk = canAsk,
                                                               !.flat = /\ canBid /\ canAsk
                                                                        /\ bidOrderId = 0
                                                                        /\ askOrderId = 0],
                                                     canBid, bidOrderId, askOrderId)
                                   IN  Land(i, r.c, resp \o r.tr, state, Timer)
    /\ UNCHANGED <<ringVars, quoteVars, estimatorVars, strategyConfig, asConfig, bidOrderId, askOrderId, stats, calls, orders>>

\* update(): `await this.stop()` of the stop-loss branch: cancelAllOrders answered
CycleStopLoss(i) ==
    /\ cycles[i].pc = "sl_cancel"
    /\ \E res \in Outcomes :
          /\ orders' = IF res = "ok" THEN CancelAll(orders) ELSE orders
          /\ bidOrderId' = IF res = "ok" THEN 0 ELSE bidOrderId
          /\ askOrderId' = IF res = "ok" THEN 0 ELSE askOrderId
          /\ cancelDone' = (res = "ok")
          /\ Land(i, [cycles[i] EXCEPT !.pc = "done"],
                  Resp("cancelAllOrders", res) \o setState("STOPPED") \o Return("stop"),
                  "STOPPED", Timer)
    /\ UNCHANGED <<ringVars, quoteVars, estimatorVars, strategyConfig, asConfig, currentKappa, stats, pm, calls>>

\* the desired price of the side the cycle is working on
SidePrice(c) == IF c.side = "BUY" THEN c.bid ELSE c.ask

\* updateOrCreateOrder with every NEW order replaced
needsReplaceAlways(existingOrder, price, cfg) == TRUE

\* updateOrCreateOrder: `priceDiff >= minPriceMove`
needsReplace(existingOrder, price, cfg) == Abs(existingOrder.price - price) >= cfg.tickSize

\* updateOrCreateOrder: getOrder answered, with a failure, with null ("none") or with
\* the order
CycleGetAnswering(i, answers) ==
    /\ cycles[i].pc = "get"
    /\ \E res \in answers :
          LET c == cycles[i]
              existingOrder == orders[c.oid]
              resp == Resp("getOrder", IF res = "fail" THEN "fail" ELSE "ok")
          IN  IF res = "fail"
              THEN \* caught by updateOrCreateOrder and logged
                   LET r == SideDone([c EXCEPT !.ioFail = TRUE], askOrderId)
                   IN  /\ Land(i, r.c, resp \o r.tr, state, Timer)
                       /\ UNCHANGED <<pm, stats>>
              ELSE IF res = "ok" /\ existingOrder.status = "NEW"
              THEN /\ UNCHANGED <<pm, stats>>
                   /\ IF needsReplace(existingOrder, SidePrice(c), asConfig)
                      THEN Land(i, [c EXCEPT !.pc = "cancel"], resp \o Issue("cancelOrder"),
                                state, Timer)
                      ELSE LET r == SideDone(c, askOrderId)
                           IN  Land(i, r.c, resp \o r.tr, state, Timer)
              ELSE IF res = "ok" /\ existingOrder.status = "FILLED"
              THEN LET r == IssuePlace([c EXCEPT !.fillEvt = TRUE], c.side)
                   IN  /\ pm' = updateFromOrder(pm, existingOrder)
                       /\ stats' = [stats EXCEPT !.totalOrdersFilled = @ + 1]
                       /\ Land(i, r.c, resp \o r.tr, state, Timer)
              ELSE \* unknown, cancelled, expired, rejected or partially filled
                   LET r == IssuePlace(c, c.side)
                   IN  /\ UNCHANGED <<pm, stats>>
                       /\ Land(i, r.c, resp \o r.tr, state, Timer)
    /\ UNCHANGED <<ringVars, quoteVars, estimatorVars, strategyConfig, asConfig, bidOrderId, askOrderId, currentKappa, calls, orders, cancelDone>>

\* cancelOrder at the exchange, which refuses an order that is no longer open
CancelOne(os, id, res) ==
    IF res = "ok" THEN [os EXCEPT ![id] = [@ EXCEPT !.status = "CANCELLED"]] ELSE os

\* cancelOrder(): ORDER_CANCELLED on success, a log line on failure
cancelOrderTrace(res) ==
    Resp("cancelOrder", res) \o (IF res = "ok" THEN emitEvent("ORDER_CANCELLED", "") ELSE <<>>)

\* updateOrCreateOrder, cancel and replace: cancelOrder answered, placeOrder requested
CycleCancel(i) ==
    /\ cycles[i].pc = "cancel"
    /\ \E res \in Outcomes :
          LET c == cycles[i]
              r == IssuePlace([c EXCEPT !.ioFail = @ \/ res = "fail"], c.side)
          IN  /\ res = "ok" => IsOpen(orders[c.oid])
              /\ orders' = CancelOne(orders, c.oid, res)
              /\ Land(i, r.c, cancelOrderTrace(res) \o r.tr, state, Timer)
    /\ UNCHANGED <<ringVars, quoteVars, estimatorVars, strategyConfig, asConfig, bidOrderId, askOrderId, currentKappa, stats, pm, calls, cancelDone>>

\* manageOrders, position limit reached: cancelOrder answered, the handle is dropped
CycleLimitCancel(i) ==
    /\ cycles[i].pc = "limit_cancel"
    /\ \E res \in Outcomes :
          LET c == cycles[i]
              bidH == IF c.side = "BUY" THEN 0 ELSE bidOrderId
              askH == IF c.side = "SELL" THEN 0 ELSE askOrderId
              r == SideDone([c EXCEPT !.ioFail = @ \/ res = "fail"], askH)
          IN  /\ res = "ok" => IsOpen(orders[c.oid])
              /\ orders' = CancelOne(orders, c.oid, res)
              /\ bidOrderId' = bidH
              /\ askOrderId' = askH
              /\ Land(i, r.c, cancelOrderTrace(res) \o r.tr, state, Timer)
    /\ UNCHANGED <<ringVars, quoteVars, estimatorVars, strategyConfig, asConfig, currentKappa, stats, pm, calls, cancelDone>>

\* placeOrder answered: the returned id (null on failure) becomes the side's handle
CyclePlaceUpTo(i, cap) ==
    /\ cycles[i].pc = "place"
    /\ \E res \in Outcomes :
          LET c == cycles[i]
              roundedQty == roundToTickSize(asConfig.orderSize, asConfig.lotSize, "down")
              roundedPrice == roundToTickSize(SidePrice(c), asConfig.tickSize, "nearest")
              newOrderId == IF res = "ok" THEN Len(orders) + 1 ELSE 0
              bidH == IF c.side = "BUY" THEN newOrderId ELSE bidOrderId
              askH == IF c.side = "SELL" THEN newOrderId ELSE askOrderId
              r == SideDone([c EXCEPT !.ioFail = @ \/ res = "fail"], askH)
              tr == Resp("placeOrder", res)
                    \o (IF res = "ok" THEN emitEvent("ORDER_PLACED", "") ELSE <<>>)
                    \o (IF c.fillEvt THEN emitEvent("ORDER_FILLED", "") ELSE <<>>)
          IN  /\ res = "ok" => Len(orders) < cap
              /\ orders' = IF res = "ok"
                           THEN Append(orders, [side |-> c.side, status |-> "NEW",
                                                quantity |-> roundedQty, executedQuantity |-> 0,
                                                price |-> roundedPrice, avgPrice |-> 0])
                           ELSE orders
              /\ stats' = IF res = "ok" THEN [stats EXCEPT !.totalOrdersPlaced = @ + 1] ELSE stats
              /\ bidOrderId' = bidH
              /\ askOrderId' = askH
              /\ Land(i, r.c, tr \o r.tr, state, Timer)
    /\ UNCHANGED <<ringVars, quoteVars, estimatorVars, strategyConfig, asConfig, currentKappa, pm, calls, cancelDone>>

CycleBook(i) == CycleBookIn(i, Mids, KappaEstimates)

CycleGet(i) == CycleGetAnswering(i, {"fail", "none", "ok"})

CyclePlace(i) == CyclePlaceUpTo(i, MaxOrders)

-----------------------------------------------------------------------------
(* The program *)

LifecycleNext ==
    \/ Initialize \/ InitializeDone
    \/ Start \/ StartKlines \/ StartBook
    \/ Pause \/ PauseDone
    \/ ResumeCall \/ ResumeDone
    \/ Stop \/ StopDone

CycleNext ==
    \/ TimerFire
    \/ \E i \in CycleIds :
          \/ CycleBook(i) \/ CycleStopLoss(i) \/ CycleGet(i)
          \/ CycleCancel(i) \/ CycleLimitCancel(i) \/ CyclePlace(i)

Next == LifecycleNext \/ CycleNext \/ ExchangeFill

Spec == Init /\ [][Next]_vars

\* The strategy in dry-run mode (DEFAULT_AS_CONFIG.dryRun): manageOrders returns
\* before it touches an order, so no order is ever placed, read or filled.
DryInitialize == InitializeWith(DryRunConfigs)

DryNext ==
    \/ DryInitialize \/ InitializeDone
    \/ Start \/ StartKlines \/ StartBook
    \/ Pause \/ PauseDone
    \/ ResumeCall \/ ResumeDone
    \/ Stop \/ StopDone
    \/ TimerFire
    \/ \E i \in CycleIds : CycleBook(i) \/ CycleStopLoss(i)

DrySpec == Init /\ [][DryNext]_vars

\* The strategy in dry-run mode, initialized with a valid configuration or with one
\* whose orderSize, maxPosition, tickSize, lotSize or minPosition is zero or has the
\* wrong sign. onInitialize hands no gamma, maxSpreadMultiplier or minSpread to
\* createASConfig, so these always have their defaults.
ValidDryRunConfig ==
    [orderSize |-> 1, maxPosition |-> 1, minPosition |-> -1, tickSize |-> 1,
     lotSize |-> 1, dryRun |-> TRUE]

ConfigVariants ==
    {ValidDryRunConfig}
    \cup {[ValidDryRunConfig EXCEPT ![f] = v] :
             f \in {"orderSize", "maxPosition", "tickSize", "lotSize"}, v \in {0, -1}}
    \cup {[ValidDryRunConfig EXCEPT !.minPosition = v] : v \in {0, 1}}

ConfigInitialize == InitializeWith(ConfigVariants)

ConfigNext ==
    \/ ConfigInitialize \/ InitializeDone
    \/ Start \/ StartKlines \/ StartBook
    \/ Pause \/ PauseDone
    \/ ResumeCall \/ ResumeDone
    \/ Stop \/ StopDone
    \/ TimerFire
    \/ \E i \in CycleIds : CycleBook(i) \/ CycleStopLoss(i)

ConfigSpec == Init /\ [][ConfigNext]_vars

\* The strategy trading (dryRun = false) with a caller that starts it and then only
\* pauses and resumes, never makes a call the state rejects and never stops, in a
\* market that does not reach the stop-loss.
TradingConfigs == {config \in BaseConfigs : ~config.dryRun}
ResumeCaller == [calls |-> MaxLiveCalls, chains |-> MaxResumeChains]

TradingInitialize == InitializeWith(TradingConfigs)
AcceptedStart  == ~startRejects(state) /\ StartBy(ResumeCaller)
AcceptedPause  == ~pauseRejects(state) /\ PauseBy(ResumeCaller)
AcceptedResume == ~resumeRejects(state) /\ ResumeCallBy(ResumeCaller)
CycleBookAboveStopLoss(i) == CycleBook(i) /\ state' = state

ResumeNext ==
    \/ TradingInitialize \/ InitializeDone
    \/ AcceptedStart \/ StartKlines \/ StartBook
    \/ AcceptedPause \/ PauseDone
    \/ AcceptedResume \/ ResumeDone
    \/ TimerFire
    \/ \E i \in CycleIds :
          \/ CycleBookAboveStopLoss(i)
          \/ CycleGet(i) \/ CycleCancel(i) \/ CycleLimitCancel(i) \/ CyclePlace(i)
    \/ ExchangeFill

ResumeSpec == Init /\ [][ResumeNext]_vars

\* The strategy trading with orders of two lots, started once and left running in a
\* market that does not reach the stop-loss and gives the estimator too little data
\* for an estimate, while the exchange executes its orders in part or in full and
\* answers getOrder for every order it accepted.
MaxQuotingOrders == 3

QuotingConfigs ==
    {[orderSize |-> 2, maxPosition |-> 2, minPosition |-> -2, tickSize |-> 1,
      lotSize |-> 1, dryRun |-> FALSE]}

QuotingInitialize == InitializeWith(QuotingConfigs)

\* one lot of an order that nothing has executed yet is executed at its limit price
ExchangePartialFill ==
    /\ \E id \in OpenOrders :
          /\ orders[id].status = "NEW" /\ orders[id].quantity > 1
          /\ orders' = [orders EXCEPT ![id] = [@ EXCEPT !.status = "PARTIALLY_FILLED",
                                                     !.executedQuantity = 1,
                                                     !.avgPrice = orders[id].price]]
    /\ trace' = <<>>
    /\ ended' = NoEnded
    /\ UNCHANGED <<ringVars, quoteVars, estimatorVars, state, strategyConfig, asConfig, updateTimer, timers,
                   bidOrderId, askOrderId, currentKappa, stats, pm, cycles, calls, cancelDone>>

QuotingBook(i) == CycleBookIn(i, Mids, {0}) /\ state' = state

QuotingGet(i) == CycleGetAnswering(i, {"fail", "ok"})

QuotingPlace(i) == CyclePlaceUpTo(i, MaxQuotingOrders)

QuotingNext ==
    \/ QuotingInitialize \/ InitializeDone
    \/ AcceptedStart \/ StartKlines \/ StartBook
    \/ TimerFire
    \/ \E i \in CycleIds :
          \/ QuotingBook(i)
          \/ QuotingGet(i) \/ CycleCancel(i) \/ CycleLimitCancel(i) \/ QuotingPlace(i)
    \/ ExchangeFill \/ ExchangePartialFill

QuotingSpec == Init /\ [][QuotingNext]_vars

\* The strategy trading with a caller that starts it and then only pauses and
\* resumes, as in ResumeSpec, in a quiet market: the account holds no position, the
\* mid price stays where it is, the estimator has too little data for an estimate,
\* and the exchange accepts more orders and executes none.
MaxOverlapOrders == 3

QuietInitializeDone == InitializeDone /\ pm'.currentInventory = 0
QuietResumeDone == ResumeDone /\ pm'.currentInventory = 0
QuietBook(i) == CycleBookIn(i, {1000}, {0}) /\ state' = state
OverlapPlace(i) == CyclePlaceUpTo(i, MaxOverlapOrders)

OverlapNext ==
    \/ TradingInitialize \/ QuietInitializeDone
    \/ AcceptedStart \/ StartKlines \/ StartBook
    \/ AcceptedPause \/ PauseDone
    \/ AcceptedResume \/ QuietResumeDone
    \/ TimerFire
    \/ \E i \in CycleIds : QuietBook(i) \/ QuotingGet(i) \/ OverlapPlace(i)

OverlapSpec == Init /\ [][OverlapNext]_vars

\* The strategy trading, started once and left running while the mid price stays
\* where it is and the exchange executes at most MaxLiveFills orders. Every
\* exchange call is answered and every timer fires (weak fairness); the exchange
\* does not fail getOrderBook for ever, nor refuse the placements of a side for ever
\* (strong fairness).
MaxLiveFills == 1
\* one order per side and one more for every order executed
MaxLiveOrders == 2 + MaxLiveFills

LiveBook(i) == CycleBookIn(i, {3000}, {0}) /\ state' = state
LivePlace(i) == CyclePlaceUpTo(i, MaxLiveOrders)
LiveFill == ExchangeFill /\ Cardinality({id \in DOMAIN orders' : orders'[id].status = "FILLED"}) <= MaxLiveFills

BookAnswered == \E i \in CycleIds : LiveBook(i) /\ CountErrors(trace') = 0

PlaceAccepted(side) ==
    \E i \in CycleIds :
       /\ cycles[i].pc = "place" /\ cycles[i].side = side
       /\ LivePlace(i)
       /\ Len(orders') = Len(orders) + 1

LiveCycle ==
    \E i \in CycleIds : LiveBook(i) \/ QuotingGet(i) \/ CycleLimitCancel(i) \/ LivePlace(i)

LiveNext ==
    \/ TradingInitialize \/ InitializeDone
    \/ AcceptedStart \/ StartKlines \/ StartBook
    \/ TimerFire
    \/ LiveCycle
    \/ LiveFill

LiveFairness ==
    /\ WF_vars(StartKlines) /\ WF_vars(StartBook)
    /\ WF_vars(TimerFire)
    /\ WF_vars(LiveCycle)
    /\ SF_vars(BookAnswered)
    /\ SF_vars(PlaceAccepted("BUY")) /\ SF_vars(PlaceAccepted("SELL"))

LiveSpec == Init /\ [][LiveNext]_vars /\ LiveFairness

-----------------------------------------------------------------------------
(* The ledger alone: any sequence of fills with positive quantity and price on a
   flat PositionManager, marked to market in between *)

Sides == {"BUY", "SELL"}

\* updateFromOrder(order) for a filled order; the fill price comes from avgPrice,
\* or from price when avgPrice is absent
ApplyFill ==
    /\ Len(pm.trades) < MaxFills
    /\ \E side \in Sides, qty \in 1..MaxQty, px \in 1..MaxPrice, viaAvg \in BOOLEAN :
          pm' = updateFromOrder(pm, [side |-> side, executedQuantity |-> qty,
                                     avgPrice |-> IF viaAvg THEN px ELSE 0, price |-> px])
    /\ UNCHANGED <<ringVars, quoteVars, estimatorVars, state, strategyConfig, asConfig, updateTimer, timers, bidOrderId, askOrderId, currentKappa,
                   stats, cycles, calls, orders, trace, ended, cancelDone>>

MarkToMarket ==
    /\ \E mid \in 1..MaxPrice : pm' = updateUnrealizedPnl(pm, mid)
    /\ pm' # pm
    /\ UNCHANGED <<ringVars, quoteVars, estimatorVars, state, strategyConfig, asConfig, updateTimer, timers, bidOrderId, askOrderId, currentKappa,
                   stats, cycles, calls, orders, trace, ended, cancelDone>>

LedgerNext == ApplyFill \/ MarkToMarket

LedgerSpec == Init /\ [][LedgerNext]_vars

\* cash received minus cash paid over the recorded trades
RECURSIVE NetCash(_)
NetCash(ts) ==
    IF ts = <<>> THEN 0
    ELSE LET t == ts[Len(ts)]
         IN  NetCash(SubSeq(ts, 1, Len(ts) - 1))
             + (IF t.side = "SELL" THEN t.quantity * t.price ELSE -(t.quantity * t.price))

-----------------------------------------------------------------------------
(* A RingBuffer alone: any sequence of push, pop and clear on a buffer of any
   capacity; every call made after a clear() is also made on a buffer constructed
   at that clear() *)

RingInit ==
    /\ StrategyInit /\ NoQuotes /\ NoEstimates
    /\ \E capacity \in 1..MaxCapacity : ring = RingBuffer(capacity)
    /\ fresh = NoRing
    /\ pushed = <<>>
    /\ popped = FALSE
    /\ returned = <<undefined, undefined>>

Push ==
    /\ Len(pushed) < MaxPushes
    /\ \E item \in Items :
          /\ ring' = push(ring, item)
          /\ fresh' = IF fresh = NoRing THEN fresh ELSE push(fresh, item)
          /\ pushed' = Append(pushed, item)
    /\ returned' = <<undefined, undefined>>
    /\ UNCHANGED <<popped, quoteVars, estimatorVars, strategyVars>>

Pop ==
    /\ ring' = pop(ring).ring
    /\ fresh' = IF fresh = NoRing THEN fresh ELSE pop(fresh).ring
    /\ returned' = <<pop(ring).item, IF fresh = NoRing THEN undefined ELSE pop(fresh).item>>
    /\ popped' = TRUE
    /\ UNCHANGED <<pushed, quoteVars, estimatorVars, strategyVars>>

Clear ==
    /\ ring' = clear(ring)
    /\ fresh' = RingBuffer(ring.capacity)
    /\ pushed' = <<>>
    /\ popped' = FALSE
    /\ returned' = <<undefined, undefined>>
    /\ UNCHANGED <<quoteVars, estimatorVars, strategyVars>>

RingNext == Push \/ Pop \/ Clear

RingSpec == RingInit /\ [][RingNext]_vars

\* the last k items of a sequence
LastOf(seq, k) == SubSeq(seq, Len(seq) - k + 1, Len(seq))

-----------------------------------------------------------------------------
(* applyPriceConstraints alone, on every quote calculateASQuote can build from a
   mid price, a reservation price and a positive half spread *)

MaxMid == 2
MaxSkew == 4
MaxHalfSpread == 2
MaxMinSpread == 3
MaxMultiplier == 2
MaxTick == 2

\* tick sizes: fractions and multiples of the price unit
TickSizes == {Rat(n, d) : n \in 1..MaxTick, d \in 1..MaxTick}

\* Math.floor, Math.ceil and Math.round (half up) of a rational, as integers
floor(x) == x.n \div x.d
ceil(x) == -((-x.n) \div x.d)
round(x) == (2 * x.n + x.d) \div (2 * x.d)

\* roundToTickSize with every direction rounding to the nearest tick
roundToTickNearest(price, tickSize, direction) ==
    RMul(RInt(round(RDiv(price, tickSize))), tickSize)

\* roundToTickSize over exact rationals
roundToTick(price, tickSize, direction) ==
    LET normalized == RDiv(price, tickSize)
        rounded == IF direction = "down" THEN floor(normalized)
                   ELSE IF direction = "up" THEN ceil(normalized)
                   ELSE round(normalized)
    IN  RMul(RInt(rounded), tickSize)

\* mid prices that keep every bid of the quotes above zero
QuoteMids == (MaxSkew + MaxHalfSpread + 1)..(MaxSkew + MaxHalfSpread + MaxMid)

\* calculateBidAskPrices: bid = r - delta, ask = r + delta
calculateBidAskPrices(reservationPrice, halfSpread) ==
    [bidPrice |-> RSub(reservationPrice, halfSpread),
     askPrice |-> RAdd(reservationPrice, halfSpread)]

\* the ASQuote of calculateASQuote, with the reservation price and the half spread
\* given instead of computed from inventory, gamma, kappa and sigma
calculateASQuote(midPrice, reservationPrice, halfSpread) ==
    [midPrice |-> midPrice,
     reservationPrice |-> reservationPrice,
     halfSpread |-> halfSpread,
     bidPrice |-> calculateBidAskPrices(reservationPrice, halfSpread).bidPrice,
     askPrice |-> calculateBidAskPrices(reservationPrice, halfSpread).askPrice]

applyPriceConstraints(q, minSpread, maxSpreadMultiplier) ==
    LET bid1 == IF ~RLess(q.bidPrice, q.midPrice)
                THEN RSub(q.midPrice, q.halfSpread) ELSE q.bidPrice
        ask1 == IF ~RLess(q.midPrice, q.askPrice)
                THEN RAdd(q.midPrice, q.halfSpread) ELSE q.askPrice
        currentSpread == RSub(ask1, bid1)
        tooNarrow == RLess(currentSpread, minSpread)
        widen == RDiv(RSub(minSpread, currentSpread), RInt(2))
        bid2 == IF tooNarrow THEN RSub(bid1, widen) ELSE bid1
        ask2 == IF tooNarrow THEN RAdd(ask1, widen) ELSE ask1
        half2 == IF tooNarrow THEN RDiv(RSub(ask2, bid2), RInt(2)) ELSE q.halfSpread
        maxSpread == RMul(RMul(q.halfSpread, maxSpreadMultiplier), RInt(2))
        tooWide == RLess(maxSpread, currentSpread)
        narrow == RDiv(RSub(currentSpread, maxSpread), RInt(2))
    IN  [q EXCEPT !.bidPrice = IF tooWide THEN RAdd(bid2, narrow) ELSE bid2,
                  !.askPrice = IF tooWide THEN RSub(ask2, narrow) ELSE ask2,
                  !.halfSpread = IF tooWide THEN RDiv(maxSpread, RInt(2)) ELSE half2]

QuoteInit ==
    /\ StrategyInit /\ NoRings /\ NoEstimates
    /\ \E mid \in QuoteMids, skew \in (-MaxSkew)..MaxSkew, halfSpread \in 1..MaxHalfSpread :
          quote = calculateASQuote(RInt(mid), RInt(mid + skew), RInt(halfSpread))
    /\ \E minSpread \in 0..MaxMinSpread, maxSpreadMultiplier \in 1..MaxMultiplier :
          \E tickSize \in TickSizes :
             constraints = [minSpread |-> RInt(minSpread),
                            maxSpreadMultiplier |-> RInt(maxSpreadMultiplier),
                            tickSize |-> tickSize]
    /\ constrained = NoQuote
    /\ result = NoQuote
    /\ submitted = NoQuote

ApplyPriceConstraints ==
    /\ constrained = NoQuote
    /\ constrained' = applyPriceConstraints(quote, constraints.minSpread,
                                            constraints.maxSpreadMultiplier)
    /\ UNCHANGED <<quote, constraints, result, submitted, ringVars, estimatorVars, strategyVars>>

\* calculateAS after the constraints: the bid is rounded down, the ask up
RoundPrices ==
    /\ constrained # NoQuote /\ result = NoQuote
    /\ result' = [bidPrice |-> roundToTick(constrained.bidPrice, constraints.tickSize, "down"),
                  askPrice |-> roundToTick(constrained.askPrice, constraints.tickSize, "up")]
    /\ UNCHANGED <<quote, constraints, constrained, submitted, ringVars, estimatorVars, strategyVars>>

\* placeOrder for each side: roundedPrice = roundToTickSize(price, tickSize, 'nearest')
SubmitPrices ==
    /\ result # NoQuote /\ submitted = NoQuote
    /\ submitted' = [bidPrice |-> roundToTick(result.bidPrice, constraints.tickSize, "nearest"),
                     askPrice |-> roundToTick(result.askPrice, constraints.tickSize, "nearest")]
    /\ UNCHANGED <<quote, constraints, constrained, result, ringVars, estimatorVars, strategyVars>>

QuoteNext == ApplyPriceConstraints \/ RoundPrices \/ SubmitPrices

QuoteSpec == QuoteInit /\ [][QuoteNext]_vars

-----------------------------------------------------------------------------
(* A VolatilityCalculator alone: positive prices are added and calculate() is
   called in any order *)

MaxWindow == 4
MaxPrices == 5
MaxCalculates == 3
MinKappaWindow == 1

VolPrices == {1, 2, 4}

VolInit ==
    /\ StrategyInit /\ NoRings /\ NoQuotes
    /\ \E window \in 2..MaxWindow, useEwma \in BOOLEAN :
          estimator = ParameterEstimator(window, MinKappaWindow, useEwma)
    /\ params = NoParams
    /\ answer = [op |-> "new", added |-> 0, calculated |-> 0, value |-> null]

AddPrice ==
    /\ answer.added < MaxPrices
    /\ \E price \in VolPrices :
          estimator' = [estimator EXCEPT !.volatility = addPrice(@, price)]
    /\ answer' = [answer EXCEPT !.op = "addPrice", !.added = @ + 1, !.value = null]
    /\ UNCHANGED <<params, ringVars, quoteVars, strategyVars>>

Calculate ==
    /\ answer.calculated < MaxCalculates
    /\ LET r == calculate(estimator.volatility)
       IN  /\ estimator' = [estimator EXCEPT !.volatility = r.calculator]
           /\ answer' = [answer EXCEPT !.op = "calculate", !.calculated = @ + 1,
                                       !.value = r.value]
    /\ UNCHANGED <<params, ringVars, quoteVars, strategyVars>>

VolNext == AddPrice \/ Calculate

VolSpec == VolInit /\ [][VolNext]_vars

-----------------------------------------------------------------------------
(* updateParameters on a ParameterEstimator: spreads are added to the
   KappaCalculator, and volatility.calculate() answers null or a sigma *)

MaxSpreads == 5
MaxUpdates == 2
KappaSpreadMultiplier == 2

KappaWindows == {4, 5}
Spreads == {-1, 0, 1, 1000}
SigmaAnswers == {null} \cup {Value(x) : x \in {RZero, Rat(1, 1000), RInt(1), RInt(10)}}
FixedSigmas == {null, Value(Rat(1, 50))}
FixedKappas == {null, Value(Rat(1, 20))}

\* onInitialize: `this.asConfig.kappa || 0.01`, `this.asConfig.sigma || 0.001`
ParamInit ==
    /\ StrategyInit /\ NoRings /\ NoQuotes
    /\ \E kappaWindow \in KappaWindows :
          estimator = ParameterEstimator(MaxWindow, kappaWindow, FALSE)
    /\ \E fs \in FixedSigmas, fk \in FixedKappas :
          params = [defined |-> TRUE, sigma |-> fs, kappa |-> fk,
                    currentSigma |-> IF fs # null THEN fs.value ELSE Rat(1, 1000),
                    currentKappa |-> IF fk # null THEN fk.value ELSE Rat(1, 100)]
    /\ answer = [op |-> "new", added |-> 0, updated |-> 0]

AddSpread ==
    /\ answer.added < MaxSpreads
    /\ \E spread \in Spreads :
          estimator' = [estimator EXCEPT !.kappa = addSpread(@, spread)]
    /\ answer' = [op |-> "addSpread", added |-> answer.added + 1, updated |-> answer.updated]
    /\ UNCHANGED <<params, ringVars, quoteVars, strategyVars>>

UpdateParameters ==
    /\ answer.updated < MaxUpdates
    /\ \E sigma \in SigmaAnswers :
          LET estimates == getEstimates(estimator, sigma, RInt(KappaSpreadMultiplier))
          IN  /\ params' = updateParametersOf(params, estimates)
              /\ answer' = [op |-> "updateParameters", added |-> answer.added,
                            updated |-> answer.updated + 1,
                            sigma |-> sigma,
                            calculate |-> calculateKappa(estimator.kappa,
                                                         RInt(KappaSpreadMultiplier)),
                            estimates |-> estimates]
    /\ UNCHANGED <<estimator, ringVars, quoteVars, strategyVars>>

ParamNext == AddSpread \/ UpdateParameters

ParamSpec == ParamInit /\ [][ParamNext]_vars

-----------------------------------------------------------------------------
(* Properties *)

\* the step was a call of the lifecycle method op from outside
Called(tr, op) == tr # <<>> /\ tr[1] = Item("invoke", op, "")

\* the values written to _state, and the payloads of the STATE_CHANGE events, of a step
StateWrites(tr) ==
    LET w == SelectSeq(tr, LAMBDA x : x.k = "set")
    IN  [k \in 1..Len(w) |-> w[k].a]
StateChangeEvents(tr) ==
    LET e == SelectSeq(tr, LAMBDA x : x.k = "emit" /\ x.a = "STATE_CHANGE")
    IN  [k \in 1..Len(e) |-> e[k].b]

\* stop() calls suspended at cancelAllOrders: from outside, and from the stop-loss branch
StopPending == calls["stop_cancel"] + Cardinality({i \in CycleIds : cycles[i].pc = "sl_cancel"})

\* C1: at any time at most one update cycle is in flight and at most one update
\* timer is pending, whatever the interleaving of start/pause/resume/stop with a
\* cycle suspended at an exchange await.
C1_SingleCycleSingleTimer ==
    /\ Cardinality(ActiveCycles) <= 1
    /\ timers <= 1

\* C2: when the state is Stopped after a stop(), or Paused after a pause(), whose
\* cancelAllOrders call succeeded, no order of the strategy is open at the exchange
\* and both order handles are null.
C2_NoOrderSurvivesCancel ==
    (cancelDone /\ state \in {"STOPPED", "PAUSED"})
        => (bidOrderId = 0 /\ askOrderId = 0 /\ OpenOrders = {})

\* C3: an update cycle that found the total PnL below stopLossThreshold has called
\* placeOrder zero times, ends with the state Stopped, and schedules no further cycle.
C3_StopLossStops ==
    (ended.some /\ ended.sl)
        => (ended.placed = 0 /\ state = "STOPPED" /\ ~ended.scheduled)

\* C4: the state becomes Running only by start() from Stopped or resume() from
\* Paused; start() called in any other state throws and leaves the state unchanged.
C4_RunningOnlyFromStoppedOrPaused ==
    [][ /\ (state # "RUNNING" /\ state' = "RUNNING")
              => \/ state = "STOPPED" /\ Called(trace', "start")
                 \/ state = "PAUSED" /\ Called(trace', "resume")
        /\ (Called(trace', "start") /\ state # "STOPPED")
              => (trace' = Invoke("start") \o Throw("start") /\ state' = state)
      ]_vars

\* C5: pause() when not Running, resume() when not Paused and start() when Running
\* throw at once: the state is unchanged, no STATE_CHANGE is emitted, the hook does
\* not run, no timer is created or cleared and no exchange call is made.
C5_RejectedCallsDoNothing ==
    [][ \A op \in {"start", "pause", "resume"} :
          ( /\ Called(trace', op)
            /\ \/ op = "pause" /\ state # "RUNNING"
               \/ op = "resume" /\ state # "PAUSED"
               \/ op = "start" /\ state = "RUNNING" )
          => /\ trace' = Invoke(op) \o Throw(op)
             /\ UNCHANGED <<state, updateTimer, timers, calls, cycles, orders,
                            bidOrderId, askOrderId, pm, stats, currentKappa>>
      ]_vars

C5_Witness ==
    /\ trace = Invoke("resume") \o Throw("resume")
    /\ state = "RUNNING"
    /\ ActiveCycles # {}
    /\ timers > 0

\* C6: stop() called in Running or Paused (from outside or by the stop-loss branch)
\* sets Stopping and suspends at cancelAllOrders without throwing; when that call
\* is answered, whether it succeeded or failed, stop() sets Stopped and returns.
C6_StopReachesStopped ==
    [][ /\ ( /\ \E k \in DOMAIN trace' : trace'[k] = Item("invoke", "stop", "")
             /\ state \in {"RUNNING", "PAUSED"} )
           => /\ state' = "STOPPING"
              /\ StopPending' = StopPending + 1
              /\ \A k \in DOMAIN trace' : trace'[k].k # "throw"
        /\ (StopPending' < StopPending)
           => /\ state' = "STOPPED"
              /\ \E k \in 1..(Len(trace') - 2) :
                    SubSeq(trace', k, k + 2) = setState("STOPPED") \o Return("stop")
              /\ \A k \in DOMAIN trace' : trace'[k].k # "throw"
      ]_vars

C6_Witness ==
    /\ trace = Resp("cancelAllOrders", "fail") \o setState("STOPPED") \o Return("stop")
    /\ state = "STOPPED"
    /\ ActiveCycles # {}

\* C7: a cycle whose update() threw emitted exactly one ERROR event, left the state
\* as it was (never Error), and scheduled the next cycle exactly when the state is
\* Running.
C7_CycleThrowHandled ==
    [][ (ended'.some /\ ended'.threw)
          => /\ ended'.errors = 1
             /\ state' = state
             /\ state' # "ERROR"
             /\ IF state' = "RUNNING"
                THEN ended'.scheduled /\ updateTimer' = "live" /\ timers' = timers + 1
                ELSE ~ended'.scheduled /\ timers' = timers /\ updateTimer' = updateTimer
      ]_vars

C7_Witness ==
    /\ ended.some /\ ended.threw
    /\ ended.scheduled
    /\ state = "RUNNING"
    /\ trace = Resp("getOrderBook", "fail") \o emitEvent("ERROR", "") \o TimerOp("set")

\* C8: a cycle in which getOrderBook, getOrder, placeOrder or cancelOrder failed
\* emitted at least one ERROR event.
C8_IoFailureEmitsError ==
    (ended.some /\ ended.ioFail) => ended.errors >= 1

\* C9: in every step, each write to the state is immediately followed by a
\* STATE_CHANGE event carrying the written value, the STATE_CHANGE payloads are
\* exactly the values written, in order, and the state changes only by such a write.
C9_StateChangeFollowsState ==
    [][ /\ \A k \in DOMAIN trace' :
              trace'[k].k = "set"
                 => /\ k < Len(trace')
                    /\ trace'[k + 1] = Item("emit", "STATE_CHANGE", trace'[k].a)
        /\ LET written == StateWrites(trace')
           IN  /\ StateChangeEvents(trace') = written
               /\ state' = IF written = <<>> THEN state ELSE written[Len(written)]
      ]_vars

C9_Witness ==
    /\ StateChangeEvents(trace) = <<"STOPPED">>
    /\ ended.some /\ ended.sl
    /\ state = "STOPPED"

\* C10: from a flat ledger, after any fills with positive quantity and price,
\* realizedPnl - currentInventory * averageEntryPrice is the net cash flow, and
\* realized + unrealized PnL marked at any price m is the net cash flow plus
\* currentInventory * m.
C10_NoPnlLeakage ==
    /\ RSub(pm.realizedPnl, RMul(RInt(pm.currentInventory), pm.averageEntryPrice))
          = RInt(NetCash(pm.trades))
    /\ \A m \in 1..MaxPrice :
          totalPnl(updateUnrealizedPnl(pm, m))
             = RInt(NetCash(pm.trades) + pm.currentInventory * m)

C10_Witness ==
    /\ Len(pm.trades) >= 2
    /\ pm.currentInventory < 0
    /\ pm.realizedPnl # RZero
    /\ \E i \in 1..Len(pm.trades) : pm.trades[i].side = "BUY"

\* the fill applied by a ledger step: the trade it appended
FillApplied == Len(pm'.trades) = Len(pm.trades) + 1
LastFill == pm'.trades[Len(pm'.trades)]

\* a filled order of the given side, quantity and price
Filled(side, qty, px) == [side |-> side, executedQuantity |-> qty, avgPrice |-> px, price |-> px]

\* C11: realizedPnl changes only in a step that applies a fill against inventory of
\* the opposite sign: a BUY applied while inventory >= 0 and a SELL applied while
\* inventory <= 0 leave it unchanged, and so does every step that applies no fill.
C11_RealizedOnlyOnReduction ==
    [][ pm'.realizedPnl # pm.realizedPnl
          => /\ FillApplied
             /\ \/ LastFill.side = "BUY" /\ pm.currentInventory < 0
                \/ LastFill.side = "SELL" /\ pm.currentInventory > 0
      ]_vars

C11_Witness ==
    /\ Len(pm.trades) = 3
    /\ pm.trades[1].side = "SELL" /\ pm.trades[2].side = "SELL"
    /\ pm.trades[2].price # pm.trades[1].price
    /\ pm.trades[3].side = "BUY"
    /\ pm.realizedPnl # RZero

\* C12: a fill of dq at px against inventory q of the opposite sign with average a
\* realizes min(dq,|q|)*(a-px) for a BUY (min(dq,|q|)*(px-a) for a SELL), moves the
\* inventory by dq, and sets the average to px when the sign flips, to 0 when the
\* inventory lands on 0, and leaves it alone on a partial close; short 1 at 100
\* then BUY 2 at 90 gives realized 10, inventory +1, average 90.
C12_OppositeFill ==
    /\ LET short == updateFromOrder(FlatLedger, Filled("SELL", 1, 100))
           after == updateFromOrder(short, Filled("BUY", 2, 90))
       IN  /\ short.currentInventory = -1 /\ short.averageEntryPrice = RInt(100)
           /\ after.realizedPnl = RInt(10)
           /\ after.currentInventory = 1
           /\ after.averageEntryPrice = RInt(90)
    /\ \A side \in Sides, dq \in 1..MaxQty, px \in 1..MaxPrice :
          LET q == pm.currentInventory
              a == pm.averageEntryPrice
              after == updateFromOrder(pm, Filled(side, dq, px))
              sign == IF side = "BUY" THEN 1 ELSE -1
              closed == Min(dq, Abs(q))
          IN  (q * sign < 0)
                => /\ after.realizedPnl =
                         RAdd(pm.realizedPnl,
                              RMul(RInt(closed * sign), RSub(a, RInt(px))))
                   /\ after.currentInventory = q + sign * dq
                   /\ after.averageEntryPrice =
                         IF (q + sign * dq) * sign > 0 THEN RInt(px)
                         ELSE IF q + sign * dq = 0 THEN RZero ELSE a

C12_Witness ==
    /\ Len(pm.trades) = 2
    /\ pm.trades[1].side = "BUY" /\ pm.trades[2].side = "SELL"
    /\ pm.trades[2].quantity > pm.trades[1].quantity
    /\ pm.currentInventory < 0
    /\ pm.averageEntryPrice = RInt(pm.trades[2].price)
    /\ pm.realizedPnl # RZero

\* C13: from a flat ledger, after any fills, currentInventory = 0 implies
\* averageEntryPrice = 0; buying 1 at 100 then selling 1 at 110 gives realized 10,
\* inventory 0, average 0.
C13_FlatMeansZeroAverage ==
    /\ LET after == updateFromOrder(updateFromOrder(FlatLedger, Filled("BUY", 1, 100)),
                                    Filled("SELL", 1, 110))
       IN  /\ after.realizedPnl = RInt(10)
           /\ after.currentInventory = 0
           /\ after.averageEntryPrice = RZero
    /\ pm.currentInventory = 0 => pm.averageEntryPrice = RZero

C13_Witness ==
    /\ Len(pm.trades) = 2
    /\ pm.trades[1].side = "SELL" /\ pm.trades[2].side = "BUY"
    /\ pm.currentInventory = 0
    /\ pm.realizedPnl # RZero

\* C14: for a strategy that trades (dryRun = false) and whose position read at
\* initialize/resume is within [minPosition, maxPosition], the ledger's
\* currentInventory is within [minPosition, maxPosition] in every reachable state.
C14_InventoryWithinLimits ==
    ( /\ Ready /\ ~asConfig.dryRun
      /\ \A got \in Positions :
            got.kind = "pos" => got.quantity \in asConfig.minPosition..asConfig.maxPosition )
    => pm.currentInventory \in asConfig.minPosition..asConfig.maxPosition

\* the position limits of a validated configuration
Limits == {createASConfig(config) : config \in {b \in BaseConfigs : b.orderSize > 0}}

\* C15: for every inventory and every qty > 0, canBuy(qty) is true exactly when
\* inventory + qty is within [minPosition, maxPosition], and canSell(qty) exactly
\* when inventory - qty is within [minPosition, maxPosition].
C15_CanBuyCanSellExact ==
    \A cfg \in Limits, qty \in 1..MaxQty :
       /\ canBuy(pm, cfg, qty)
             <=> (pm.currentInventory + qty) \in cfg.minPosition..cfg.maxPosition
       /\ canSell(pm, cfg, qty)
             <=> (pm.currentInventory - qty) \in cfg.minPosition..cfg.maxPosition

\* C16: once initialize() has returned, currentInventory, averageEntryPrice and
\* realizedPnl change only in a step that applies a fill; pause, resume, stop and
\* cycles that detect no fill leave them unchanged.
C16_LedgerChangesOnlyOnFill ==
    [][ ( /\ Ready
          /\ \/ pm'.currentInventory # pm.currentInventory
             \/ pm'.averageEntryPrice # pm.averageEntryPrice
             \/ pm'.realizedPnl # pm.realizedPnl )
        => FillApplied
      ]_vars

\* C17: when getPosition fails inside PositionManager.initialize(), the caller
\* (initialize() or resume()) goes on and returns without throwing, and the ledger
\* has inventory 0 and average entry price 0.
C17_InitializeFallsBackToFlat ==
    [][ (trace' # <<>> /\ trace'[1] = Item("resp", "getPosition", "fail"))
          => /\ pm'.currentInventory = 0
             /\ pm'.averageEntryPrice = RZero
             /\ \A k \in DOMAIN trace' : trace'[k].k # "throw"
             /\ trace'[Len(trace')].k = "return"
             /\ calls' \in {Resume("init_pos"), Resume("resume_pos")}
      ]_vars

C17_Witness ==
    /\ trace = Resp("getPosition", "fail") \o setState("STOPPED") \o Return("initialize")
    /\ state = "STOPPED"
    /\ pm.currentInventory = 0 /\ pm.averageEntryPrice = RZero

\* C18: after n pushes and no pop on a buffer of capacity C >= 1 (newly constructed,
\* or cleared), toArray() is the last min(n, C) pushed items, oldest first, and
\* size() = min(n, C); capacity 3 pushed 1, 2, 3, 4 gives [2, 3, 4].
C18_ToArrayIsLastPushed ==
    /\ toArray(push(push(push(push(RingBuffer(3), 1), 2), 3), 4)) = <<2, 3, 4>>
    /\ ~popped =>
          /\ toArray(ring) = LastOf(pushed, Min(Len(pushed), ring.capacity))
          /\ size(ring) = Min(Len(pushed), ring.capacity)

C18_Witness ==
    /\ ~popped /\ fresh = NoRing
    /\ ring.capacity = 3 /\ Len(pushed) = 4
    /\ pushed[1] # pushed[2]
    /\ toArray(ring) = SubSeq(pushed, 2, 4)

\* C19: after clear() every call answers as it does on a buffer constructed with the
\* same capacity and given the same calls: pop, peek, get, toArray, size, isFull.
C19_ClearedIsFresh ==
    fresh # NoRing =>
       /\ returned[1] = returned[2]
       /\ peek(ring) = peek(fresh)
       /\ \A index \in -1..MaxCapacity : get(ring, index) = get(fresh, index)
       /\ toArray(ring) = toArray(fresh)
       /\ size(ring) = size(fresh)
       /\ isFull(ring) = isFull(fresh)

C19_Witness ==
    /\ fresh # NoRing
    /\ popped /\ returned[1] # undefined
    /\ size(ring) > 0 /\ ring.capacity > 1

\* C20: for every quote with halfSpread > 0, whatever its mid price and reservation
\* price, and every minSpread >= 0 and maxSpreadMultiplier >= 1, the quote returned
\* by applyPriceConstraints has bidPrice < midPrice < askPrice.
C20_BidBelowMidBelowAsk ==
    constrained # NoQuote =>
       /\ RLess(constrained.bidPrice, constrained.midPrice)
       /\ RLess(constrained.midPrice, constrained.askPrice)

\* C21: for every quote with halfSpread > 0, minSpread >= 0 and
\* maxSpreadMultiplier >= 1, the quote returned by applyPriceConstraints has
\* askPrice - bidPrice >= minSpread.
C21_SpreadAtLeastMinSpread ==
    constrained # NoQuote =>
       ~RLess(RSub(constrained.askPrice, constrained.bidPrice), constraints.minSpread)

\* whether price is a whole number of ticks
IsTickMultiple(price, tickSize) == RDiv(price, tickSize).d = 1

\* C22: calculateAS returns as bidPrice the greatest tick multiple not above the
\* constrained bid and as askPrice the least tick multiple not below the constrained
\* ask, so the returned spread is at least the constrained spread; placeOrder
\* submits exactly these prices.
C22_RoundedOutwards ==
    /\ result # NoQuote =>
          LET tick == constraints.tickSize
          IN  /\ IsTickMultiple(result.bidPrice, tick)
              /\ ~RLess(constrained.bidPrice, result.bidPrice)
              /\ RLess(constrained.bidPrice, RAdd(result.bidPrice, tick))
              /\ IsTickMultiple(result.askPrice, tick)
              /\ ~RLess(result.askPrice, constrained.askPrice)
              /\ RLess(RSub(result.askPrice, tick), constrained.askPrice)
              /\ ~RLess(RSub(result.askPrice, result.bidPrice),
                        RSub(constrained.askPrice, constrained.bidPrice))
    /\ submitted # NoQuote =>
          /\ submitted.bidPrice = result.bidPrice
          /\ submitted.askPrice = result.askPrice

C22_Witness ==
    /\ submitted # NoQuote
    /\ RLess(result.bidPrice, constrained.bidPrice)
    /\ RLess(constrained.askPrice, result.askPrice)
    /\ constraints.tickSize # RInt(1)
    /\ constrained.bidPrice.d > 1

\* whether the step just taken called op on the exchange, or emitted event type
Issued(op) == \E k \in DOMAIN trace : trace[k] = Item("call", op, "")
Emitted(type) == \E k \in DOMAIN trace : trace[k].k = "emit" /\ trace[k].a = type

\* C23: in dry-run mode no step calls placeOrder or emits ORDER_PLACED,
\* totalOrdersPlaced is 0 and both order handles are null.
C23_DryRunPlacesNothing ==
    (asConfig # NoConfig /\ asConfig.dryRun) =>
       /\ ~Issued("placeOrder")
       /\ ~Emitted("ORDER_PLACED")
       /\ stats.totalOrdersPlaced = 0
       /\ bidOrderId = 0 /\ askOrderId = 0
       /\ orders = <<>>

C23_Witness ==
    /\ asConfig # NoConfig /\ asConfig.dryRun
    /\ ended.some /\ ~ended.threw /\ ended.scheduled
    /\ Emitted("UPDATE")

\* a StrategyConfig the specification calls invalid
NonPositiveSizes(config) ==
    \/ config.orderSize <= 0 \/ config.tickSize <= 0 \/ config.lotSize <= 0
    \/ config.maxPosition <= 0 \/ config.minPosition >= 0

\* C26: initialize() with a configuration whose orderSize, tickSize, lotSize or
\* maxPosition is <= 0 or whose minPosition is >= 0 raises: it issues no exchange
\* call, the state stays Initializing and never becomes Stopped, and no timer, cycle
\* or order exists afterwards.
C26_InvalidConfigFailsClosed ==
    (strategyConfig # NoConfig /\ NonPositiveSizes(strategyConfig)) =>
       /\ state = "INITIALIZING"
       /\ \A l \in CallLabels : calls[l] = 0
       /\ timers = 0 /\ ActiveCycles = {}
       /\ orders = <<>>

\* the orders the exchange has executed in full
FilledOrders == {id \in 1..Len(orders) : orders[id].status = "FILLED"}

\* C27: a FILLED order found by reconciliation is applied to the ledger once and
\* counted once: the ledger holds at most one trade, and totalOrdersFilled at most
\* one count, for each filled order.
C27_FillAppliedOnce ==
    /\ Len(pm.trades) <= Cardinality(FilledOrders)
    /\ stats.totalOrdersFilled <= Cardinality(FilledOrders)

\* quantity bought minus quantity sold over the trades the ledger recorded
RECURSIVE NetTraded(_)
NetTraded(ts) ==
    IF ts = <<>> THEN 0
    ELSE LET t == ts[Len(ts)]
         IN  NetTraded(SubSeq(ts, 1, Len(ts) - 1))
             + (IF t.side = "BUY" THEN t.quantity ELSE -t.quantity)

\* quantity bought minus quantity sold that the exchange executed on the orders
RECURSIVE NetExecuted(_)
NetExecuted(os) ==
    IF os = <<>> THEN 0
    ELSE LET o == os[Len(os)]
         IN  NetExecuted(SubSeq(os, 1, Len(os) - 1))
             + (IF o.side = "BUY" THEN o.executedQuantity ELSE -o.executedQuantity)

\* no cycle in flight, no lifecycle call in flight, none of the strategy's orders
\* open, and no handle left through which a later cycle could still find a fill
Quiescent ==
    /\ ActiveCycles = {} /\ OpenOrders = {}
    /\ \A l \in CallLabels : calls[l] = 0
    /\ bidOrderId = 0 /\ askOrderId = 0

\* C28: whenever the strategy is quiescent, every quantity the exchange executed on
\* its orders has been applied to the ledger: the inventory is the inventory read at
\* initialize plus the executed BUY quantity minus the executed SELL quantity.
C28_ExecutedIsApplied ==
    Quiescent => NetTraded(pm.trades) = NetExecuted(orders)

\* the sides for which the step just taken called placeOrder on the exchange
PlacingSides ==
    {cycles'[i].side : i \in {j \in CycleIds : cycles'[j].pc = "place" /\ cycles[j].pc # "place"}}

\* C29: placeOrder for a BUY of the order size is issued only when
\* currentInventory + orderSize <= maxPosition, and for a SELL only when
\* currentInventory - orderSize >= minPosition, with the inventory of the moment the
\* call is made.
C29_PlacementWithinLimits ==
    [][ /\ "BUY" \in PlacingSides => canBuy(pm', asConfig, asConfig.orderSize)
        /\ "SELL" \in PlacingSides => canSell(pm', asConfig, asConfig.orderSize)
      ]_vars

OpenOn(side) == {id \in OpenOrders : orders[id].side = side}

\* C24: at any time at most one BUY order and at most one SELL order of the
\* strategy is open (NEW or PARTIALLY_FILLED) at the exchange.
C24_OneOpenOrderPerSide ==
    /\ Cardinality(OpenOn("BUY")) <= 1
    /\ Cardinality(OpenOn("SELL")) <= 1

\* C25: a cycle of a trading strategy that starts manageOrders with both handles
\* null and both sides within the position limits, and meets no exchange failure,
\* calls placeOrder exactly twice; every accepted placement is an order of the
\* cycle's side at the quote's price for that side, and its id becomes that side's
\* handle.
C25_FlatCyclePlacesBothSides ==
    [][ /\ (ended'.some /\ ended'.flat /\ ~ended'.ioFail /\ ~ended'.threw)
           => ended'.placed = 2
        /\ \A i \in CycleIds :
              (cycles[i].pc = "place" /\ cycles'[i] # cycles[i] /\ Len(orders') = Len(orders) + 1)
              => LET new == orders'[Len(orders')]
                     c == cycles[i]
                 IN  /\ new.side = c.side
                     /\ new.price = (IF c.side = "BUY" THEN c.bid ELSE c.ask)
                     /\ new.quantity = asConfig.orderSize
                     /\ IF c.side = "BUY" THEN bidOrderId' = Len(orders')
                                         ELSE askOrderId' = Len(orders')
      ]_vars

C32_CycleStartsOnlyWhileRunning ==
    [][ /\ (\E i \in CycleIds : cycles[i].pc = "idle" /\ cycles'[i].pc = "book")
           => state = "RUNNING" /\ state' = "RUNNING"
        /\ (trace' # <<>> /\ trace'[1] = Item("fire", "", "") /\ state # "RUNNING")
           => /\ cycles' = cycles
              /\ ~Issued("getOrderBook")'
        /\ (state # "RUNNING" /\ state' = "RUNNING")
           => Called(trace', "start") \/ Called(trace', "resume")
      ]_vars

C32_Witness ==
    /\ state \in {"PAUSED", "STOPPING", "STOPPED"}
    /\ trace = <<Item("fire", "", "")>> \o Return("runUpdate")
    /\ ActiveCycles = {}

\* C33: in every step in which a call of stop() returns, the state is Stopped
\* afterwards, and the cancelAllOrders request of the shutdown has been issued: it
\* is answered in that step, or it is pending, or an earlier stop() has completed.
C33_StopReturnsStopped ==
    [][ (\E k \in DOMAIN trace' : trace'[k] = Item("return", "stop", ""))
          => /\ state' = "STOPPED"
             /\ \/ \E k \in DOMAIN trace' :
                      trace'[k].k = "resp" /\ trace'[k].a = "cancelAllOrders"
                \/ StopPending > 0
                \/ state = "STOPPED"
      ]_vars

\* C34: KappaCalculator.calculate returns null exactly when fewer than 5 spreads
\* are buffered or their average is <= 0, and otherwise a value in [0.001, 0.5];
\* the kappa of an estimate is in [0.001, 0.5] (0.01 when it comes from a sigma
\* <= 0); the current kappa is > 0 after every updateParameters.
C34_KappaPositive ==
    answer.op = "updateParameters" =>
       LET spreads == Numbers(estimator.kappa.spreadBuffer)
           k == answer.calculate
           InRange(x) == ~RLess(x, Rat(1, 1000)) /\ ~RLess(Rat(1, 2), x)
       IN  /\ k = null <=> (Len(spreads) < 5 \/ Sum(spreads) <= 0)
           /\ k # null => InRange(k.value)
           /\ answer.estimates # null
              => /\ InRange(answer.estimates.value.kappa)
                 /\ (k = null /\ ~RLess(RZero, answer.sigma.value))
                    => answer.estimates.value.kappa = Rat(1, 100)
           /\ RLess(RZero, params.currentKappa)

C34_Witness ==
    /\ answer.op = "updateParameters"
    /\ answer.calculate # null
    /\ params.kappa = null
    /\ params.currentKappa = Rat(1, 1000)

\* C35: after every updateParameters the current sigma is the configured sigma
\* when one is configured; otherwise it is the estimator's sigma when the estimator
\* returned estimates, and the value it had before when the estimator returned
\* null. The same holds for kappa.
C35_FixedThenEstimateThenLast ==
    [][ answer'.op = "updateParameters"
          => /\ params'.currentSigma =
                   IF params.sigma # null THEN params.sigma.value
                   ELSE IF answer'.estimates # null THEN answer'.estimates.value.sigma
                   ELSE params.currentSigma
             /\ params'.currentKappa =
                   IF params.kappa # null THEN params.kappa.value
                   ELSE IF answer'.estimates # null THEN answer'.estimates.value.kappa
                   ELSE params.currentKappa
             /\ answer'.estimates # null => answer'.estimates.value.sigma = answer'.sigma.value
             /\ params'.sigma = params.sigma /\ params'.kappa = params.kappa
      ]_vars

C35_Witness ==
    /\ answer.op = "updateParameters"
    /\ answer.estimates = null
    /\ params.sigma # null /\ params.kappa = null
    /\ params.currentSigma = params.sigma.value
    /\ params.currentKappa = Rat(1, 2)

\* C36: after k positive prices have been added to a VolatilityCalculator of
\* window N >= 2 it buffers min(max(k - 1, 0), N - 1) returns; calculate() returns
\* null exactly when fewer than 2 returns are buffered, that is, it returns a value
\* exactly when k >= 3 and N >= 3.
C36_NullUntilTwoReturns ==
    (estimator.defined /\ answer.op \in {"new", "addPrice", "calculate"}) =>
       LET v == estimator.volatility
           N == v.priceBuffer.capacity
           k == answer.added
           expected == Min(IF k - 1 > 0 THEN k - 1 ELSE 0, N - 1)
       IN  /\ size(v.returnsBuffer) = expected
           /\ Len(toArray(v.returnsBuffer)) = expected
           /\ answer.op = "calculate"
              => /\ answer.value = null <=> size(v.returnsBuffer) < 2
                 /\ answer.value # null <=> (k >= 3 /\ N >= 3)

C36_Witness ==
    /\ estimator.defined /\ answer.op = "calculate"
    /\ answer.value # null
    /\ answer.added = 3
    /\ answer.value.value = RZero

\* C37: VolatilityCalculator.calculate() changes nothing in the calculator, and
\* called again with no addPrice in between it returns the same value.
C37_CalculateIsPure ==
    [][ answer'.op = "calculate"
          => /\ estimator' = estimator
             /\ answer.op = "calculate" => answer'.value = answer.value
      ]_vars

\* C38: in dry-run mode no step, of an update cycle or of a lifecycle call, calls
\* placeOrder, cancelOrder or cancelAllOrders on the exchange.
C38_DryRunMutatesNothing ==
    (asConfig # NoConfig /\ asConfig.dryRun) =>
       /\ ~Issued("placeOrder")
       /\ ~Issued("cancelOrder")
       /\ ~Issued("cancelAllOrders")

\* C39: while a trading strategy is Running with a side within its position limit
\* and no order handle for that side, a handle for that side is eventually set
\* unless the side leaves its limit, provided timers fire, exchange calls are answered and the exchange does not
\* refuse the side's placements for ever.
C39_HandleEventuallySet ==
    /\ ( /\ state = "RUNNING" /\ asConfig.defined /\ ~asConfig.dryRun
         /\ canBuy(pm, asConfig, asConfig.orderSize) /\ bidOrderId = 0 )
       ~> \/ bidOrderId # 0
          \/ (asConfig.defined /\ ~canBuy(pm, asConfig, asConfig.orderSize))
    /\ ( /\ state = "RUNNING" /\ asConfig.defined /\ ~asConfig.dryRun
         /\ canSell(pm, asConfig, asConfig.orderSize) /\ askOrderId = 0 )
       ~> \/ askOrderId # 0
          \/ (asConfig.defined /\ ~canSell(pm, asConfig, asConfig.orderSize))

\* the bid was accepted after the ask: an earlier placement of the bid had failed
C39_Witness ==
    /\ state = "RUNNING"
    /\ askOrderId = 1 /\ bidOrderId = 2
    /\ trace # <<>> /\ trace[1] = Item("resp", "placeOrder", "ok")

\* the items get(0), ..., get(count - 1) of a buffer
Retained(r) == [k \in 1..r.count |-> get(r, k - 1)]

\* C40: in every state of a RingBuffer 0 <= count <= capacity, head = (tail + count)
\* mod capacity, isFull() holds exactly when count = capacity and get(i) is an item
\* for 0 <= i < count; get(0), get(1), ... are the retained items, oldest first: a
\* push appends its item and drops the oldest when the buffer was full, a pop
\* returns get(0) and drops it, a clear leaves nothing.
C40_RingInvariant ==
    /\ [](ring # NoRing =>
             /\ 0 <= ring.count /\ ring.count <= ring.capacity
             /\ ring.head = (ring.tail + ring.count) % ring.capacity
             /\ isFull(ring) <=> ring.count = ring.capacity
             /\ size(ring) = ring.count
             /\ \A i \in 0..(ring.count - 1) : get(ring, i) \in Items
             /\ get(ring, -1) = undefined /\ get(ring, ring.count) = undefined)
    /\ [][ IF Len(pushed') = Len(pushed) + 1
           THEN Retained(ring)' =
                   (IF isFull(ring) THEN Tail(Retained(ring)) ELSE Retained(ring))
                   \o <<pushed'[Len(pushed')]>>
           ELSE IF popped'
           THEN /\ returned'[1] = get(ring, 0)
                /\ Retained(ring)' = IF ring.count = 0 THEN <<>> ELSE Tail(Retained(ring))
           ELSE Retained(ring)' = <<>>
         ]_vars

C40_Witness ==
    /\ ring # NoRing /\ ring.capacity = 3
    /\ popped /\ returned[1] # undefined
    /\ ring.count = 2 /\ ring.tail = 2 /\ ring.head = 1
====
